---- MODULE Spec2Model ----
(***************************************************************************)
(* Verification model of the law-corpus pipeline of RechtsInfo_App:        *)
(*   - the versioned ingestion of law chunks (scripts/ingest-laws.js), its *)
(*     batched driver and the monthly update with its pruning;             *)
(*   - the citation guard (src/guards/citationGuard.js).                   *)
(* The database is modelled by its committed contents; an ingestion run    *)
(* works in a transaction whose writes are an overlay that COMMIT applies  *)
(* and ROLLBACK discards.                                                  *)
(***************************************************************************)
EXTENDS Integers, Sequences, FiniteSets, TLC

(***************************************************************************)
(* Bounds of the model.                                                    *)
(***************************************************************************)
\* version tags are 1..NumTags, ordered as the date strings they stand for
NumTags == 2
\* law directories are 0..NumDirs; directory d holds d XML files
NumDirs == 2
\* cap on how many ingest-laws.js processes one behaviour starts
MaxRuns == 3

NoTag == 0
Tags == 1..NumTags
Dirs == 0..NumDirs
\* the process slots; sequential runs all use the first one
Runners == {"r1", "r2"}
Sequential == {"r1"}
Modes == {"replace", "append"}

\* files found by walk(LAW_XML_DIR) in directory d
FilesIn(d) == d

VARIABLES
  versions,       \* law_dataset_versions: tag -> status ("none": no row)
  activePointer,  \* law_dataset_meta['active_version_tag'] (NoTag: no row)
  chunks,         \* law_chunks: tag -> directory -> copies of its chunks
  stateFile,      \* ingest-progress-<tag>.json: tag -> directories done
  run,            \* the ingest-laws.js processes
  batch,          \* the batched-ingest driver process
  monthly,        \* the update-laws-monthly.js process
  runs,           \* how many ingest-laws.js processes were started
  gpc,            \* sanitizeAnswerCitations: "idle", "call", "loop" or "done"
  answerText,     \* its argument answerText
  allowedNorms,   \* its argument allowedNorms, a Set in insertion order
  found,          \* const found = text.match(NORM_REGEX) || []
  gi,             \* the index in found the loop is at
  sanitized,      \* let sanitized
  removed,        \* const removed = new Set()
  replaced,       \* const replaced = []
  chat,           \* the /chat request being handled by the server
  catalog,        \* a call of rebuildLawCatalog and the law_catalog table
  split,          \* a call of splitText
  nn,             \* a call of normalizeNorm on its own result
  allow,          \* a call of buildNormAllowlist
  legal           \* a call of answerLegalQuestion

dbVars == <<versions, activePointer, chunks, stateFile, run, batch, monthly, runs>>
guardVars == <<gpc, answerText, allowedNorms, found, gi, sanitized, removed, replaced>>
callVars == <<catalog, split, nn, allow, legal>>

\* no call is under way
NoCall == [pc |-> "idle"]
CallsIdle ==
  /\ catalog = NoCall /\ split = NoCall /\ nn = NoCall
  /\ allow = NoCall /\ legal = NoCall

Status == {"none", "loading", "active", "failed", "archived"}

NoChunks == [d \in Dirs |-> 0]

\* A transaction that has written nothing.
EmptyTx ==
  [versions |-> [t \in Tags |-> "unset"],
   pointer  |-> {},
   deleted  |-> NoChunks,
   inserted |-> 0]

\* the committed database, and the database before any ingestion
Committed == [versions |-> versions, pointer |-> activePointer, chunks |-> chunks]

EmptyDb ==
  [versions |-> [t \in Tags |-> "none"], pointer |-> NoTag,
   chunks |-> [t \in Tags |-> NoChunks]]

IdleRun ==
  [pc |-> "idle", tag |-> NoTag, mode |-> "replace", dir |-> 0, caller |-> "cli",
   file |-> 0, tx |-> EmptyTx, pre |-> EmptyDb, failedAt |-> "none", scan |-> {}]

DbInit ==
  /\ versions = [t \in Tags |-> "none"]
  /\ activePointer = NoTag
  /\ chunks = [t \in Tags |-> NoChunks]
  /\ stateFile = [t \in Tags |-> {}]
  /\ run = [r \in Runners |-> IdleRun]
  /\ batch = [pc |-> "idle", tag |-> NoTag, done |-> {}]
  /\ monthly = [pc |-> "idle", latest |-> NoTag, rows |-> {}]
  /\ runs = 0

(***************************************************************************)
(* What a transaction sees: the committed rows overlaid by its own writes. *)
(***************************************************************************)
TxStatus(r, t) ==
  IF run[r].tx.versions[t] # "unset" THEN run[r].tx.versions[t] ELSE versions[t]

InRun(r) == run[r].pc \in {"upsert", "delete", "ingest", "archive", "activate",
                           "repoint", "commit"}

AllIdle == \A r \in Runners : run[r].pc = "idle"

(***************************************************************************)
(* ingest-laws.js main()                                                   *)
(***************************************************************************)
\* walk(LAW_XML_DIR); no XML file: return (exit code 0); otherwise BEGIN.
StartRunWithin(r, t, m, d, who, cap) ==
  /\ run[r].pc = "idle"
  /\ runs < cap
  /\ runs' = runs + 1
  /\ run' = [run EXCEPT ![r] =
       [pc |-> IF FilesIn(d) = 0 THEN "returned" ELSE "upsert",
        tag |-> t, mode |-> m, dir |-> d, caller |-> who, file |-> 0,
        tx |-> EmptyTx, pre |-> Committed, failedAt |-> "none", scan |-> {}]]

StartRun(r, t, m, d, who) == StartRunWithin(r, t, m, d, who, MaxRuns)

\* INSERT ... ON CONFLICT (version_tag) DO UPDATE SET status = 'loading'
TxUpsertLoading(r) == [run[r].tx EXCEPT !.versions[run[r].tag] = "loading"]

Upsert(r) ==
  /\ run[r].pc = "upsert"
  /\ run' = [run EXCEPT ![r].tx = TxUpsertLoading(r), ![r].pc = "delete"]
  /\ UNCHANGED <<versions, activePointer, chunks, stateFile, batch, monthly, runs>>

\* (variant: the DELETE is missing)
TxDeleteSkipped(r) == run[r].tx

\* (variant: the DELETE runs in both modes)
TxDeleteAlways(r) == [run[r].tx EXCEPT !.deleted = chunks[run[r].tag]]

\* if (LAW_INGEST_MODE === "replace") DELETE FROM law_chunks WHERE version_tag = $1
TxDeleteChunks(r) ==
  IF run[r].mode = "replace"
    THEN [run[r].tx EXCEPT !.deleted = chunks[run[r].tag]]
    ELSE run[r].tx

DeleteOld(r) ==
  /\ run[r].pc = "delete"
  /\ run' = [run EXCEPT ![r].tx = TxDeleteChunks(r), ![r].pc = "ingest"]
  /\ UNCHANGED <<versions, activePointer, chunks, stateFile, batch, monthly, runs>>

\* one file of the loop: parseNormBlocks, embedBatch, insertRows
IngestFile(r) ==
  /\ run[r].pc = "ingest"
  /\ run[r].file < FilesIn(run[r].dir)
  /\ run' = [run EXCEPT ![r].tx.inserted = @ + 1, ![r].file = @ + 1]
  /\ UNCHANGED <<versions, activePointer, chunks, stateFile, batch, monthly, runs>>

\* UPDATE ... SET status = 'archived' WHERE status = 'active' AND version_tag <> $1
\* (variant: the archiving statement is missing)
TxArchiveSkipped(r) == run[r].tx

TxArchiveOthers(r) ==
  [run[r].tx EXCEPT !.versions =
     [t \in Tags |-> IF t # run[r].tag /\ TxStatus(r, t) = "active"
                       THEN "archived" ELSE @[t]]]

ArchiveOthers(r) ==
  /\ run[r].pc = "ingest"
  /\ run[r].file = FilesIn(run[r].dir)
  /\ run' = [run EXCEPT ![r].tx = TxArchiveOthers(r), ![r].pc = "activate"]
  /\ UNCHANGED <<versions, activePointer, chunks, stateFile, batch, monthly, runs>>

\* UPDATE ... SET status = 'active' WHERE version_tag = $1
TxActivate(r) ==
  IF TxStatus(r, run[r].tag) # "none"
    THEN [run[r].tx EXCEPT !.versions[run[r].tag] = "active"]
    ELSE run[r].tx

Activate(r) ==
  /\ run[r].pc = "activate"
  /\ run' = [run EXCEPT ![r].tx = TxActivate(r), ![r].pc = "repoint"]
  /\ UNCHANGED <<versions, activePointer, chunks, stateFile, batch, monthly, runs>>

\* INSERT INTO law_dataset_meta ('active_version_tag', $1) ON CONFLICT DO UPDATE
TxRepoint(r) == [run[r].tx EXCEPT !.pointer = {run[r].tag}]

Repoint(r) ==
  /\ run[r].pc = "repoint"
  /\ run' = [run EXCEPT ![r].tx = TxRepoint(r), ![r].pc = "commit"]
  /\ UNCHANGED <<versions, activePointer, chunks, stateFile, batch, monthly, runs>>

\* The committed database once the transaction of r is applied.
AfterCommit(r) ==
  LET tx == run[r].tx
      T  == run[r].tag
  IN [versions |-> [t \in Tags |-> TxStatus(r, t)],
      pointer  |-> IF tx.pointer = {} THEN activePointer ELSE T,
      chunks   |-> [chunks EXCEPT ![T] =
                     [d \in Dirs |-> @[d] - tx.deleted[d]
                                     + (IF d = run[r].dir /\ tx.inserted > 0
                                          THEN 1 ELSE 0)]]]

\* (variant: no transaction scope, the statements executed so far persist)
AfterRollbackPartial(r) == AfterCommit(r)

\* The committed database once the transaction of r is rolled back.
AfterRollback(r) == Committed

Commit(r) ==
  /\ run[r].pc = "commit"
  /\ versions' = AfterCommit(r).versions
  /\ activePointer' = AfterCommit(r).pointer
  /\ chunks' = AfterCommit(r).chunks
  /\ run' = [run EXCEPT ![r].tx = EmptyTx, ![r].pc = "committed"]
  /\ UNCHANGED <<stateFile, batch, monthly, runs>>

\* catch (err) { ROLLBACK ... }: an embedding or store error at the current step
Fail(r) ==
  /\ InRun(r)
  /\ versions' = AfterRollback(r).versions
  /\ activePointer' = AfterRollback(r).pointer
  /\ chunks' = AfterRollback(r).chunks
  /\ run' = [run EXCEPT ![r].tx = EmptyTx, ![r].failedAt = run[r].pc,
                        ![r].pc = "markfailed"]
  /\ UNCHANGED <<stateFile, batch, monthly, runs>>

\* markVersionFailed: UPDATE ... SET status = 'failed' WHERE version_tag = $1
FailedStatus(t) == IF versions[t] # "none" THEN "failed" ELSE versions[t]

\* ok = FALSE: markVersionFailed itself throws and the error is swallowed
MarkVersionFailed(r, ok) ==
  /\ run[r].pc = "markfailed"
  /\ versions' = IF ok THEN [versions EXCEPT ![run[r].tag] = FailedStatus(run[r].tag)]
                       ELSE versions
  /\ run' = [run EXCEPT ![r].pc = "threw"]
  /\ UNCHANGED <<activePointer, chunks, stateFile, batch, monthly, runs>>

\* the process dies inside the transaction: the server discards the transaction
Crash(r) ==
  /\ InRun(r)
  /\ run' = [run EXCEPT ![r].tx = EmptyTx, ![r].failedAt = run[r].pc,
                        ![r].pc = "crashed"]
  /\ UNCHANGED <<versions, activePointer, chunks, stateFile, batch, monthly, runs>>

Ended(r) == run[r].pc \in {"returned", "committed", "threw", "crashed"}
ExitZero(r) == run[r].pc \in {"returned", "committed"}

ResetRun(r) == [run EXCEPT ![r] = IdleRun]

(***************************************************************************)
(* A run started by hand (node scripts/ingest-laws.js).                    *)
(***************************************************************************)
CliStart(r) ==
  /\ AllIdle /\ batch.pc = "idle" /\ monthly.pc = "idle"
  /\ \E t \in Tags, m \in Modes, d \in Dirs : StartRun(r, t, m, d, "cli")
  /\ UNCHANGED <<versions, activePointer, chunks, stateFile, batch, monthly>>

CliExit(r) ==
  /\ Ended(r) /\ run[r].caller = "cli"
  /\ run' = ResetRun(r)
  /\ UNCHANGED <<versions, activePointer, chunks, stateFile, batch, monthly, runs>>

(***************************************************************************)
(* The batched ingest: one ingest-laws.js run per law directory, resumed   *)
(* from the state file.                                                    *)
(***************************************************************************)
\* getLawDirs(): the law directories, sorted by name
LawDirs == Dirs

\* readState(): the directories recorded as done for this version tag
ReadState(t) == stateFile[t]

BatchStart ==
  /\ AllIdle /\ batch.pc = "idle" /\ monthly.pc = "idle"
  /\ \E t \in Tags : batch' = [pc |-> "loop", tag |-> t, done |-> ReadState(t)]
  /\ UNCHANGED <<versions, activePointer, chunks, stateFile, run, monthly, runs>>

\* the next directory of the loop: the least one not done
NextLawDir == CHOOSE d \in LawDirs \ batch.done :
                \A e \in LawDirs \ batch.done : d <= e

\* const mode = done.size === 0 ? "replace" : "append"
BatchMode == IF batch.done = {} THEN "replace" ELSE "append"

BatchSpawnWithin(r, cap) ==
  /\ batch.pc = "loop"
  /\ LawDirs \ batch.done # {}
  /\ StartRunWithin(r, batch.tag, BatchMode, NextLawDir, "batch", cap)
  /\ batch' = [batch EXCEPT !.pc = "wait"]
  /\ UNCHANGED <<versions, activePointer, chunks, stateFile, monthly>>

BatchSpawn(r) == BatchSpawnWithin(r, MaxRuns)

\* exit code 0: done.add(lawKey); writeState(state).  Otherwise the driver fails.
BatchChildExit(r) ==
  /\ batch.pc = "wait" /\ Ended(r) /\ run[r].caller = "batch"
  /\ IF ExitZero(r)
       THEN /\ batch' = [batch EXCEPT !.pc = "loop", !.done = @ \cup {run[r].dir}]
            /\ stateFile' = [stateFile EXCEPT ![batch.tag] =
                               batch.done \cup {run[r].dir}]
       ELSE /\ batch' = [pc |-> "idle", tag |-> NoTag, done |-> {}]
            /\ UNCHANGED stateFile
  /\ run' = ResetRun(r)
  /\ UNCHANGED <<versions, activePointer, chunks, monthly, runs>>

BatchFinish ==
  /\ batch.pc = "loop"
  /\ LawDirs \ batch.done = {}
  /\ batch' = [pc |-> "idle", tag |-> NoTag, done |-> {}]
  /\ UNCHANGED <<versions, activePointer, chunks, stateFile, run, monthly, runs>>

(***************************************************************************)
(* update-laws-monthly.js main()                                           *)
(***************************************************************************)
\* getCurrentActiveVersion(): the value of the active pointer
GetCurrentActiveVersion == activePointer

\* latest: the version tag findLatestArchive() returns; d: what the archive holds
MonthlyStart(r) ==
  /\ AllIdle /\ batch.pc = "idle" /\ monthly.pc = "idle"
  /\ \E latest \in Tags, d \in Dirs :
       /\ GetCurrentActiveVersion # latest
       /\ StartRun(r, latest, "replace", d, "monthly")
       /\ monthly' = [pc |-> "wait", latest |-> latest, rows |-> {}]
  /\ UNCHANGED <<versions, activePointer, chunks, stateFile, batch>>

\* run(): resolves on exit code 0, rejects otherwise
MonthlyChildExit(r) ==
  /\ monthly.pc = "wait" /\ Ended(r) /\ run[r].caller = "monthly"
  /\ monthly' = IF ExitZero(r)
                  THEN [monthly EXCEPT !.pc = "catalog"]
                  ELSE [pc |-> "idle", latest |-> NoTag, rows |-> {}]
  /\ run' = ResetRun(r)
  /\ UNCHANGED <<versions, activePointer, chunks, stateFile, batch, runs>>

\* the rows pruneOldVersions selects: every version but keepVersionTag
PruneRows(keep) == {t \in Tags : versions[t] # "none" /\ t # keep}

\* rebuildLawCatalog, then the SELECT of pruneOldVersions; ok = FALSE: the
\* rebuild throws and the update ends without pruning
MonthlyCatalog(ok) ==
  /\ monthly.pc = "catalog"
  /\ monthly' = IF ok
                  THEN [monthly EXCEPT !.pc = "prune", !.rows = PruneRows(monthly.latest)]
                  ELSE [pc |-> "idle", latest |-> NoTag, rows |-> {}]
  /\ UNCHANGED <<versions, activePointer, chunks, stateFile, run, batch, runs>>

\* one row of the loop: DELETE FROM law_chunks ...; UPDATE ... SET status = 'archived'
PruneRow(t) ==
  /\ monthly.pc = "prune"
  /\ t \in monthly.rows
  /\ chunks' = [chunks EXCEPT ![t] = NoChunks]
  /\ versions' = [versions EXCEPT ![t] = IF @ # "none" THEN "archived" ELSE @]
  /\ monthly' = [monthly EXCEPT !.rows = @ \ {t}]
  /\ UNCHANGED <<activePointer, stateFile, run, batch, runs>>

MonthlyDone ==
  /\ monthly.pc = "prune"
  /\ monthly.rows = {}
  /\ monthly' = [pc |-> "idle", latest |-> NoTag, rows |-> {}]
  /\ UNCHANGED <<versions, activePointer, chunks, stateFile, run, batch, runs>>

(***************************************************************************)
(* The citation guard (src/guards/citationGuard.js).  A text is a sequence *)
(* of characters, each a one-character string.                             *)
(***************************************************************************)
Digit == {"0", "1", "2", "3", "4", "5", "6", "7", "8", "9"}
Lower == {"a", "b", "c", "d", "e", "f", "g", "h", "i", "j", "k", "l", "m",
          "n", "o", "p", "q", "r", "s", "t", "u", "v", "w", "x", "y", "z"}
Upper == {"A", "B", "C", "D", "E", "F", "G", "H", "I", "J", "K", "L", "M",
          "N", "O", "P", "Q", "R", "S", "T", "U", "V", "W", "X", "Y", "Z"}
\* \s, [a-zA-Z], [A-Za-zÄÖÜäöü], [IVX] and \w of the regular expressions
Space == {" ", "\n", "\t"}
Letter == Lower \cup Upper
LawLetter == Letter \cup {"Ä", "Ö", "Ü", "ä", "ö", "ü"}
Roman == {"I", "V", "X"}
WordChar == Letter \cup Digit \cup {"_"}

Min(a, b) == IF a < b THEN a ELSE b

\* how many characters of class C follow from position i on
RECURSIVE RunLen(_, _, _)
RunLen(s, i, C) ==
  IF i <= Len(s) /\ s[i] \in C THEN 1 + RunLen(s, i + 1, C) ELSE 0

(***************************************************************************)
(* A backtracking matcher.  Each piece of the expression maps a position   *)
(* (the index of the next character to read) to the sequence of positions  *)
(* it can end at, in the order the regular expression engine tries them;   *)
(* the match is the first complete alternative.                            *)
(***************************************************************************)
\* C{lo,hi}, greedy: the longest run first
Greedy(s, i, C, lo, hi) ==
  LET ends(n) == IF n < lo THEN << >> ELSE [k \in 1..(n - lo + 1) |-> i + n - (k - 1)]
  IN ends(Min(RunLen(s, i, C), hi))

Star(s, i, C) == Greedy(s, i, C, 0, Len(s))
Plus(s, i, C) == Greedy(s, i, C, 1, Len(s))

\* a literal word
Lit(s, i, w) ==
  IF i + Len(w) - 1 <= Len(s) /\ SubSeq(s, i, i + Len(w) - 1) = w
    THEN <<i + Len(w)>> ELSE << >>

\* piece F applied after each of the positions ends, in order
Then(ends, F(_)) ==
  LET RECURSIVE go(_)
      go(k) == IF k > Len(ends) THEN << >> ELSE F(ends[k]) \o go(k + 1)
  IN go(1)

\* (?:§\s*\d+[a-zA-Z]*|Art\.\s*\d+[a-zA-Z]*)
HeadEnds(s, i) ==
  LET num(j)  == Then(Then(Star(s, j, Space), LAMBDA k : Plus(s, k, Digit)),
                      LAMBDA k : Star(s, k, Letter))
  IN Then(Lit(s, i, <<"§">>), num) \o Then(Lit(s, i, <<"A", "r", "t", ".">>), num)

\* (?:(?:Abs\.|Absatz)\s*\d+[a-zA-Z]*\s*)?
AbsEnds(s, i) ==
  LET kw == Lit(s, i, <<"A", "b", "s", ".">>)
            \o Lit(s, i, <<"A", "b", "s", "a", "t", "z">>)
      g  == Then(Then(Then(Then(kw, LAMBDA k : Star(s, k, Space)),
                           LAMBDA k : Plus(s, k, Digit)),
                      LAMBDA k : Star(s, k, Letter)),
                 LAMBDA k : Star(s, k, Space))
  IN g \o <<i>>

\* (?:(?:Satz)\s*\d+\s*)?
SatzEnds(s, i) ==
  LET g == Then(Then(Then(Lit(s, i, <<"S", "a", "t", "z">>),
                          LAMBDA k : Star(s, k, Space)),
                     LAMBDA k : Plus(s, k, Digit)),
                LAMBDA k : Star(s, k, Space))
  IN g \o <<i>>

\* (?:(?:Nr\.|Nummer)\s*\d+\s*)?
NrEnds(s, i) ==
  LET kw == Lit(s, i, <<"N", "r", ".">>)
            \o Lit(s, i, <<"N", "u", "m", "m", "e", "r">>)
      g  == Then(Then(Then(kw, LAMBDA k : Star(s, k, Space)),
                      LAMBDA k : Plus(s, k, Digit)),
                 LAMBDA k : Star(s, k, Space))
  IN g \o <<i>>

\* (?:(?:lit\.?)\s*[a-z]\s*)?
LitEnds(s, i) ==
  LET kw == Then(Lit(s, i, <<"l", "i", "t">>),
                 LAMBDA k : Lit(s, k, <<".">>) \o <<k>>)
      g  == Then(Then(Then(kw, LAMBDA k : Star(s, k, Space)),
                      LAMBDA k : Greedy(s, k, Lower, 1, 1)),
                 LAMBDA k : Star(s, k, Space))
  IN g \o <<i>>

\* (?:(?:Buchst\.|Buchstabe)\s*[a-z]\s*)?
BuchstEnds(s, i) ==
  LET kw == Lit(s, i, <<"B", "u", "c", "h", "s", "t", ".">>)
            \o Lit(s, i, <<"B", "u", "c", "h", "s", "t", "a", "b", "e">>)
      g  == Then(Then(Then(kw, LAMBDA k : Star(s, k, Space)),
                      LAMBDA k : Greedy(s, k, Lower, 1, 1)),
                 LAMBDA k : Star(s, k, Space))
  IN g \o <<i>>

\* (?:[A-Za-zÄÖÜäöü]{2,}(?:\s*(?:[IVX]{1,4}|[0-9]{1,3}))?)?
LawEnds(s, i) ==
  LET suffix(j) == Then(Star(s, j, Space),
                        LAMBDA k : Greedy(s, k, Roman, 1, 4)
                                   \o Greedy(s, k, Digit, 1, 3))
      g == Then(Greedy(s, i, LawLetter, 2, Len(s)), LAMBDA j : suffix(j) \o <<j>>)
  IN g \o <<i>>

\* \b at position e: exactly one of the characters around it is a word character
WordBoundary(s, e) ==
  LET before == e - 1 >= 1 /\ e - 1 <= Len(s) /\ s[e - 1] \in WordChar
      after  == e >= 1 /\ e <= Len(s) /\ s[e] \in WordChar
  IN before # after

\* NORM_REGEX tried at position i: where the match ends, 0 when there is none
MatchAt(s, i) ==
  LET first(ok) == IF ok = << >> THEN 0 ELSE ok[1]
      tail(head) ==
        Then(Then(Then(Then(Then(Then(Then(head,
          LAMBDA k : Star(s, k, Space)),
          LAMBDA k : AbsEnds(s, k)),
          LAMBDA k : SatzEnds(s, k)),
          LAMBDA k : NrEnds(s, k)),
          LAMBDA k : LitEnds(s, k)),
          LAMBDA k : BuchstEnds(s, k)),
          LAMBDA k : LawEnds(s, k))
  IN first(SelectSeq(tail(HeadEnds(s, i)), LAMBDA e : WordBoundary(s, e)))

\* text.match(NORM_REGEX) with the g flag: the matches from position i on, left
\* to right, each search resuming where the previous match ended
RECURSIVE MatchesFrom(_, _)
MatchesFrom(s, i) ==
  LET rest(e) == IF e = 0 THEN MatchesFrom(s, i + 1)
                 ELSE <<[start |-> i, end |-> e]>> \o MatchesFrom(s, e)
  IN IF i > Len(s) THEN << >> ELSE rest(MatchAt(s, i))

MatchSpans(s) == MatchesFrom(s, 1)
MatchAll(s) ==
  LET texts(spans) ==
        [k \in 1..Len(spans) |-> SubSeq(s, spans[k].start, spans[k].end - 1)]
  IN texts(MatchSpans(s))

\* s.replace(/\s+/g, " ")
RECURSIVE CollapseSpaces(_, _)
CollapseSpaces(s, i) ==
  IF i > Len(s) THEN << >>
  ELSE IF s[i] \in Space
         THEN <<" ">> \o CollapseSpaces(s, i + RunLen(s, i, Space))
         ELSE <<s[i]>> \o CollapseSpaces(s, i + 1)

\* s.replace(/<w>/g, "<w> "): the whitespace after w is kept
RECURSIVE SpaceAfterKept(_, _, _)
SpaceAfterKept(s, i, w) ==
  IF i > Len(s) THEN << >>
  ELSE IF Lit(s, i, w) # << >>
         THEN w \o <<" ">> \o SpaceAfterKept(s, i + Len(w), w)
         ELSE <<s[i]>> \o SpaceAfterKept(s, i + 1, w)

\* s.replace(/<w>\s*/g, "<w> ") for a literal word w
RECURSIVE SpaceAfter(_, _, _)
SpaceAfter(s, i, w) ==
  IF i > Len(s) THEN << >>
  ELSE IF Lit(s, i, w) # << >>
         THEN w \o <<" ">>
              \o SpaceAfter(s, i + Len(w) + RunLen(s, i + Len(w), Space), w)
         ELSE <<s[i]>> \o SpaceAfter(s, i + 1, w)

\* s.trim()
Trim(s) ==
  LET cut(keep) ==
        IF keep = {} THEN << >>
        ELSE SubSeq(s, RunLen(s, 1, Space) + 1,
                    CHOOSE k \in keep : \A j \in keep : j <= k)
  IN cut({k \in 1..Len(s) : s[k] \notin Space})

normalizeNorm(s) ==
  LET s1 == CollapseSpaces(s, 1)
      s2 == SpaceAfter(s1, 1, <<"§">>)
      s3 == SpaceAfter(s2, 1, <<"A", "r", "t", ".">>)
      s4 == SpaceAfter(s3, 1, <<"A", "b", "s", ".">>)
      s5 == SpaceAfter(s4, 1, <<"N", "r", ".">>)
      s6 == SpaceAfter(s5, 1, <<"S", "a", "t", "z">>)
      s7 == SpaceAfter(s6, 1, <<"l", "i", "t", ".">>)
      s8 == SpaceAfter(s7, 1, <<"B", "u", "c", "h", "s", "t", ".">>)
  IN Trim(s8)

\* append x unless the sequence holds it (a Set keeps insertion order)
SetAdd(q, x) == IF \E k \in 1..Len(q) : q[k] = x THEN q ELSE Append(q, x)

\* extractNorms: the distinct canonical forms of the matches, in order
extractNorms(text) ==
  LET RECURSIVE add(_, _)
      add(m, k) == IF k = 0 THEN << >>
                   ELSE SetAdd(add(m, k - 1), normalizeNorm(m[k]))
      out(m) == add(m, Len(m))
  IN out(MatchAll(text))

\* n.split(" ")
RECURSIVE Split(_, _, _)
Split(s, i, cur) ==
  IF i > Len(s) THEN <<cur>>
  ELSE IF s[i] = " " THEN <<cur>> \o Split(s, i + 1, << >>)
  ELSE Split(s, i + 1, Append(cur, s[i]))

\* parts[0] + (parts[1] ? ` ${parts[1]}` : "")
HeadOf(parts) ==
  parts[1] \o (IF Len(parts) >= 2 /\ parts[2] # << >> THEN <<" ">> \o parts[2] ELSE << >>)

TailOf(parts) == parts[Len(parts)]

Has(set, x) == \E k \in 1..Len(set) : set[k] = x

\* the allowed norms with the head and the tail of n, in allowlist order
Candidates(n, allowedSet) ==
  LET same(ap, head, tail) == HeadOf(ap) = head /\ TailOf(ap) = tail
      filter(head, tail) ==
        SelectSeq(allowedSet, LAMBDA a : same(Split(a, 1, << >>), head, tail))
      of(parts) == filter(HeadOf(parts), TailOf(parts))
  IN of(Split(n, 1, << >>))

\* candidates.sort((a, b) => a.length - b.length)[0]: the sort is stable, so the
\* first of the shortest candidates
ShortestCandidate(cands) ==
  LET k == CHOOSE i \in 1..Len(cands) :
             /\ \A j \in 1..Len(cands) : Len(cands[i]) <= Len(cands[j])
             /\ \A j \in 1..(i - 1) : Len(cands[j]) > Len(cands[i])
  IN cands[k]

\* (variant: the membership test is skipped)
resolveWithoutExactMatch(norm, allowedSet) ==
  LET upgrade(n, cands) ==
        IF cands = << >>
          THEN [ok |-> FALSE, norm |-> n, replaced |-> FALSE, from |-> << >>]
          ELSE [ok |-> TRUE, norm |-> ShortestCandidate(cands), replaced |-> TRUE,
                from |-> n]
      resolve(n) == upgrade(n, Candidates(n, allowedSet))
  IN resolve(normalizeNorm(norm))

resolveToAllowedNorm(norm, allowedSet) ==
  LET upgrade(n, cands) ==
        IF cands = << >>
          THEN [ok |-> FALSE, norm |-> n, replaced |-> FALSE, from |-> << >>]
          ELSE [ok |-> TRUE, norm |-> ShortestCandidate(cands), replaced |-> TRUE,
                from |-> n]
      resolve(n) ==
        IF Has(allowedSet, n)
          THEN [ok |-> TRUE, norm |-> n, replaced |-> FALSE, from |-> << >>]
          ELSE upgrade(n, Candidates(n, allowedSet))
  IN resolve(normalizeNorm(norm))

\* the index of the first occurrence of w in s, 0 when there is none
IndexOf(s, w) ==
  LET least(hits) == IF hits = {} THEN 0 ELSE CHOOSE i \in hits : \A j \in hits : i <= j
  IN least({i \in 1..(Len(s) - Len(w) + 1) : SubSeq(s, i, i + Len(w) - 1) = w})

\* s.replace(w, by) with a string pattern: the first occurrence only
ReplaceFirst(s, w, by) ==
  LET put(at) == IF at = 0 THEN s
                 ELSE SubSeq(s, 1, at - 1) \o by \o SubSeq(s, at + Len(w), Len(s))
  IN put(IndexOf(s, w))

\* "соответствующая норма (не подтверждена источниками)": each "~" stands for
\* one Cyrillic word, which holds no character of any class above
Placeholder == <<"~", " ", "~", " ", "(", "~", " ", "~", " ", "~", ")">>

(***************************************************************************)
(* sanitizeAnswerCitations(answerText, allowedNorms)                       *)
(***************************************************************************)
\* no call of the guard is under way
GuardIdle ==
  /\ gpc = "idle" /\ answerText = << >> /\ allowedNorms = << >>
  /\ found = << >> /\ gi = 0 /\ sanitized = << >>
  /\ removed = << >> /\ replaced = << >>

\* const found = text.match(NORM_REGEX) || []; if (found.length === 0) return
SanitizeBegin ==
  /\ gpc = "call"
  /\ found' = MatchAll(answerText)
  /\ gi' = IF found' = << >> THEN 0 ELSE 1
  /\ gpc' = IF found' = << >> THEN "done" ELSE "loop"
  /\ sanitized' = answerText
  /\ UNCHANGED <<answerText, allowedNorms, removed, replaced>>
  /\ UNCHANGED <<dbVars, chat, callVars>>

\* one iteration of for (const raw of found)
SanitizeStep ==
  /\ gpc = "loop"
  /\ LET raw == found[gi]
         body(res) ==
           IF ~res.ok
             THEN /\ removed' = SetAdd(removed, normalizeNorm(raw))
                  /\ sanitized' = ReplaceFirst(sanitized, raw, Placeholder)
                  /\ UNCHANGED replaced
           ELSE IF res.replaced
             THEN /\ replaced' = Append(replaced, [from |-> res.from, to |-> res.norm])
                  /\ sanitized' = ReplaceFirst(sanitized, raw, res.norm)
                  /\ UNCHANGED removed
           ELSE UNCHANGED <<sanitized, removed, replaced>>
     IN body(resolveToAllowedNorm(raw, allowedNorms))
  /\ gi' = gi + 1
  /\ gpc' = IF gi = Len(found) THEN "done" ELSE "loop"
  /\ UNCHANGED <<answerText, allowedNorms, found>>
  /\ UNCHANGED <<dbVars, chat, callVars>>

(***************************************************************************)
(* The inputs the guard is run on.                                         *)
(***************************************************************************)
\* how many citations an answer text holds at most
MaxCites == 2

Sec1 == <<"§", " ", "1">>
Abs1 == <<"A", "b", "s", ".", " ", "1">>
BG == <<"B", "G">>

\* how the citations are written in the answer
CiteForms ==
  { Sec1 \o <<" ">> \o Abs1 \o <<" ">> \o BG,          \* § 1 Abs. 1 BG
    Sec1 \o <<" ">> \o BG,                              \* § 1 BG
    <<"§", " ", "2", " ">> \o BG,                       \* § 2 BG
    Sec1 \o <<" ">> \o BG \o <<" ", "2">>,              \* § 1 BG 2
    <<"§", "1", " ">> \o BG \o <<" ", "2">>,            \* §1 BG 2
    <<"A", "r", "t", ".", " ", "1", " ">> \o BG }       \* Art. 1 BG

\* what stands between two citations
Seps == { <<",", " ">>, <<" ", "u", "n", "d", " ">> }

RECURSIVE CiteTexts(_)
CiteTexts(n) ==
  IF n = 0 THEN {<<"o", "k">>}
  ELSE IF n = 1 THEN CiteForms
  ELSE {t \o sep \o f : t \in CiteTexts(n - 1), sep \in Seps, f \in CiteForms}

AnswerTexts == {t \o <<".">> : t \in UNION {CiteTexts(n) : n \in 0..MaxCites}}

\* the evidence the allowlists are extracted from:
\* "§ 1 Abs. 1 Satz 2 BG, § 1 Abs. 1 BG, §1 BG 2."
EvidenceText ==
  Sec1 \o <<" ">> \o Abs1 \o <<" ", "S", "a", "t", "z", " ", "2", " ">> \o BG
  \o <<",", " ">> \o Sec1 \o <<" ">> \o Abs1 \o <<" ">> \o BG
  \o <<",", " ", "§", "1", " ">> \o BG \o <<" ", "2", ".">>

AllowedUniverse == extractNorms(EvidenceText)

\* the elements of q at the indices in I, in order
PickFrom(q, I) == SelectSeq([k \in 1..Len(q) |-> IF k \in I THEN <<q[k]>> ELSE << >>],
                            LAMBDA x : x # << >>)

Allowlists ==
  {[k \in 1..Len(PickFrom(AllowedUniverse, I)) |-> PickFrom(AllowedUniverse, I)[k][1]] :
     I \in SUBSET (1..Len(AllowedUniverse))}

GuardInit ==
  /\ gpc = "call"
  /\ answerText \in AnswerTexts
  /\ allowedNorms \in Allowlists
  /\ found = << >> /\ gi = 0 /\ sanitized = << >>
  /\ removed = << >> /\ replaced = << >>

\* no /chat request is under way
NoRequest ==
  [pc |-> "idle", legalBasisMode |-> FALSE, corpus |-> 0, norms |-> "all",
   rows |-> "distinct", skip |-> "none", lawCodes |-> {}, firstQueried |-> FALSE,
   firstPass |-> << >>, fallbackSources |-> << >>, legalSources |-> << >>,
   allowedNorms |-> {}, fallbackRuns |-> 0, fallbackRetrievalUsed |-> FALSE,
   failures |-> 0, analysis |-> << >>, response |-> "none"]

ChatIdle == chat = NoRequest

vars == <<versions, activePointer, chunks, stateFile, run, batch, monthly, runs,
          gpc, answerText, allowedNorms, found, gi, sanitized, removed, replaced,
          chat, catalog, split, nn, allow, legal>>

(***************************************************************************)
(* Spec: the ingestion processes, one at a time, on an empty database.     *)
(***************************************************************************)
Init == DbInit /\ GuardIdle /\ ChatIdle /\ CallsIdle

Next ==
  \/ \E r \in Sequential : CliStart(r) /\ UNCHANGED <<guardVars, chat, callVars>>
  \/ \E r \in Sequential : Upsert(r) /\ UNCHANGED <<guardVars, chat, callVars>>
  \/ \E r \in Sequential : DeleteOld(r) /\ UNCHANGED <<guardVars, chat, callVars>>
  \/ \E r \in Sequential : IngestFile(r) /\ UNCHANGED <<guardVars, chat, callVars>>
  \/ \E r \in Sequential : ArchiveOthers(r) /\ UNCHANGED <<guardVars, chat, callVars>>
  \/ \E r \in Sequential : Activate(r) /\ UNCHANGED <<guardVars, chat, callVars>>
  \/ \E r \in Sequential : Repoint(r) /\ UNCHANGED <<guardVars, chat, callVars>>
  \/ \E r \in Sequential : Commit(r) /\ UNCHANGED <<guardVars, chat, callVars>>
  \/ \E r \in Sequential : Fail(r) /\ UNCHANGED <<guardVars, chat, callVars>>
  \/ \E r \in Sequential, ok \in BOOLEAN : MarkVersionFailed(r, ok) /\ UNCHANGED <<guardVars, chat, callVars>>
  \/ \E r \in Sequential : Crash(r) /\ UNCHANGED <<guardVars, chat, callVars>>
  \/ \E r \in Sequential : CliExit(r) /\ UNCHANGED <<guardVars, chat, callVars>>
  \/ BatchStart /\ UNCHANGED <<guardVars, chat, callVars>>
  \/ \E r \in Sequential : BatchSpawn(r) /\ UNCHANGED <<guardVars, chat, callVars>>
  \/ \E r \in Sequential : BatchChildExit(r) /\ UNCHANGED <<guardVars, chat, callVars>>
  \/ BatchFinish /\ UNCHANGED <<guardVars, chat, callVars>>
  \/ \E r \in Sequential : MonthlyStart(r) /\ UNCHANGED <<guardVars, chat, callVars>>
  \/ \E r \in Sequential : MonthlyChildExit(r) /\ UNCHANGED <<guardVars, chat, callVars>>
  \/ \E ok \in BOOLEAN : MonthlyCatalog(ok) /\ UNCHANGED <<guardVars, chat, callVars>>
  \/ \E t \in Tags : PruneRow(t) /\ UNCHANGED <<guardVars, chat, callVars>>
  \/ MonthlyDone /\ UNCHANGED <<guardVars, chat, callVars>>

Spec == Init /\ [][Next]_vars

(***************************************************************************)
(* SpecGuard: one call of sanitizeAnswerCitations on each input.           *)
(***************************************************************************)
InitGuard == DbInit /\ GuardInit /\ ChatIdle /\ CallsIdle
NextGuard == SanitizeBegin \/ SanitizeStep
SpecGuard == InitGuard /\ [][NextGuard]_vars

(***************************************************************************)
(* Version store properties.                                               *)
(***************************************************************************)
ActiveTags == {t \in Tags : versions[t] = "active"}

\* the run failed, or is still inside, the commit sequence: the archiving
\* statement has run and COMMIT has not
MidCommit(r) ==
  \/ run[r].pc \in {"activate", "repoint", "commit"}
  \/ /\ run[r].pc \in {"markfailed", "threw", "crashed"}
     /\ run[r].failedAt \in {"activate", "repoint", "commit"}

\* C1: once an ingestion run for tag T has committed, exactly one version is
\* 'active', it is T, and every version that was active before the run is
\* 'archived'.
C1_SingleActiveAfterCommit ==
  \A r \in Runners :
    run[r].pc = "committed" =>
      /\ ActiveTags = {run[r].tag}
      /\ \A t \in Tags \ {run[r].tag} :
           run[r].pre.versions[t] = "active" => versions[t] = "archived"

C1_Witness ==
  \E r \in Runners :
    /\ run[r].pc = "committed"
    /\ \E t \in Tags \ {run[r].tag} : run[r].pre.versions[t] = "active"

\* C2: in every committed state the version the active pointer names has
\* status 'active'.
C2_PointerNamesActive ==
  activePointer # NoTag => versions[activePointer] = "active"

\* C3: when an ingestion run has failed, every version that was active before
\* the run is still 'active', the pointer is what it was, and the chunks of
\* that version are what they were.
C3_FailedRunKeepsActive ==
  \A r \in Runners :
    run[r].pc = "threw" =>
      /\ activePointer = run[r].pre.pointer
      /\ \A t \in Tags :
           run[r].pre.versions[t] = "active" =>
             /\ versions[t] = "active"
             /\ chunks[t] = run[r].pre.chunks[t]

\* C9: a run that errors or crashes after the archiving statement and before
\* COMMIT leaves no trace of the commit sequence in the committed state: no
\* version that was active is archived, the run's tag has not become active,
\* the pointer is unchanged.
C9_CommitStepsAtomic ==
  \A r \in Runners :
    MidCommit(r) =>
      /\ \A t \in Tags :
           run[r].pre.versions[t] = "active" => versions[t] # "archived"
      /\ versions[run[r].tag] = "active" => run[r].pre.versions[run[r].tag] = "active"
      /\ activePointer = run[r].pre.pointer

C9_Witness ==
  \E r \in Runners :
    /\ run[r].pc = "threw"
    /\ run[r].failedAt = "repoint"
    /\ \E t \in Tags \ {run[r].tag} : run[r].pre.versions[t] = "active"

\* C10: after an ingestion run for tag T has thrown, law_dataset_versions
\* holds a row for T with status 'failed'.
C10_FailedRowAfterThrow ==
  \A r \in Runners :
    run[r].pc = "threw" => versions[run[r].tag] = "failed"

(***************************************************************************)
(* Citation guard properties.                                              *)
(***************************************************************************)
\* the citation occurrences of the answer text, and their canonical forms
Occurrences == MatchSpans(answerText)
RawOf(k) == SubSeq(answerText, Occurrences[k].start, Occurrences[k].end - 1)
CanonOf(k) == normalizeNorm(RawOf(k))
\* the answer text after occurrence k
RestAfter(k) == SubSeq(answerText, Occurrences[k].end, Len(answerText))

IsAllowed(k) == Has(allowedNorms, CanonOf(k))
\* neither allowed nor sharing head and tail with an allowed norm
IsUnverifiable(k) == ~IsAllowed(k) /\ Candidates(CanonOf(k), allowedNorms) = << >>
IsUpgradable(k) == ~IsAllowed(k) /\ Candidates(CanonOf(k), allowedNorms) # << >>

\* how many occurrences the loop has dealt with
Processed == IF gpc = "done" THEN Len(found) ELSE IF gpc = "loop" THEN gi - 1 ELSE 0

EndsWith(s, w) == Len(w) <= Len(s) /\ SubSeq(s, Len(s) - Len(w) + 1, Len(s)) = w

\* C4: every citation-shaped substring that remains in sanitizedText
\* canonicalizes to a member of allowedNorms.
C4_OnlyAllowedRemain ==
  gpc = "done" =>
    LET left == MatchAll(sanitized)
    IN \A k \in 1..Len(left) : Has(allowedNorms, normalizeNorm(left[k]))

\* C5: an occurrence that is unverifiable is replaced, where it stands, by the
\* placeholder, and removedNorms holds its canonical form.
C5_UnverifiableReplaced ==
  (Processed >= 1 /\ IsUnverifiable(Processed)) =>
    /\ EndsWith(sanitized, Placeholder \o RestAfter(Processed))
    /\ Has(removed, CanonOf(Processed))

\* C6: when every citation of the answer canonicalizes to an allowed norm, the
\* text is returned as it was and nothing is reported removed or replaced.
C6_AllowedUntouched ==
  (gpc = "done" /\ \A k \in 1..Len(Occurrences) : IsAllowed(k)) =>
    /\ sanitized = answerText
    /\ removed = << >>
    /\ replaced = << >>

C6_Witness ==
  /\ gpc = "done"
  /\ Len(Occurrences) >= 2
  /\ \A k \in 1..Len(Occurrences) : IsAllowed(k)
  /\ \E k \in 1..Len(Occurrences) : RawOf(k) # CanonOf(k)

\* C7: an occurrence that is upgradable is rewritten, where it stands, to one
\* of the shortest allowed norms sharing its head and tail, and
\* {from: its canonical form, to: that norm} is appended to replacedNorms.
C7_UpgradedToShortest ==
  (Processed >= 1 /\ IsUpgradable(Processed)) =>
    LET cands == Candidates(CanonOf(Processed), allowedNorms)
    IN \E c \in 1..Len(cands) :
         /\ \A d \in 1..Len(cands) : Len(cands[c]) <= Len(cands[d])
         /\ EndsWith(sanitized, cands[c] \o RestAfter(Processed))
         /\ replaced # << >>
         /\ replaced[Len(replaced)] = [from |-> CanonOf(Processed), to |-> cands[c]]

\* the texts that differ from the answer text only inside the occurrences that
\* are not allowed, from occurrence k on
RECURSIVE FrameTexts(_)
FrameTexts(k) ==
  IF k > Len(Occurrences) THEN {<< >>}
  ELSE LET gapEnd == IF k = Len(Occurrences) THEN Len(answerText)
                     ELSE Occurrences[k + 1].start - 1
           gap    == SubSeq(answerText, Occurrences[k].end, gapEnd)
           here   == IF IsAllowed(k) THEN {RawOf(k)}
                     ELSE {RawOf(k), Placeholder}
                          \cup {allowedNorms[j] : j \in 1..Len(allowedNorms)}
       IN {h \o gap \o t : h \in here, t \in FrameTexts(k + 1)}

\* C8: sanitizedText differs from the answer text only inside the occurrences
\* that are upgraded or removed; all other text, and every occurrence that is
\* allowed, is unchanged.
C8_OnlyCitationRangesChange ==
  gpc = "done" =>
    IF Occurrences = << >> THEN sanitized = answerText
    ELSE \E t \in FrameTexts(1) :
           sanitized = SubSeq(answerText, 1, Occurrences[1].start - 1) \o t
(***************************************************************************)
(* Status transitions.                                                     *)
(***************************************************************************)
\* the edges of the status diagram; any status may restart to 'loading'
StatusEdges ==
  {<<"loading", "active">>, <<"loading", "failed">>, <<"active", "archived">>}
  \cup {<<st, "loading">> : st \in Status}

\* the commit of a run for tag t: inside its transaction the row of t went to
\* 'loading' and from there to 'active'
CommitsTag(t) ==
  \E r \in Runners :
    /\ run[r].pc = "commit" /\ run[r].tag = t
    /\ run'[r].pc = "committed"
    /\ run[r].tx.versions[t] = "active"

\* C11: between two consecutive committed states the status of a version
\* changes only along loading -> active, loading -> failed, active -> archived
\* or a restart to loading (a committing run takes its tag through loading to
\* active); 'archived' is reached only from 'active', 'failed' only from
\* 'loading'.
C11_StatusTransitions ==
  [][\A t \in Tags :
       versions'[t] # versions[t] =>
         \/ <<versions[t], versions'[t]>> \in StatusEdges
         \/ versions'[t] = "active" /\ CommitsTag(t)]_vars

(***************************************************************************)
(* Pruning.                                                                *)
(***************************************************************************)
\* the loop of pruneOldVersions deals with the row of t in this step
Prunes(t) ==
  /\ monthly.pc = "prune"
  /\ t \in monthly.rows
  /\ t \notin monthly'.rows

\* C12: pruneOldVersions never deletes the chunks of, and never archives, the
\* version the active pointer names at the moment of the deletion.
C12_PruneSparesPointer ==
  [][\A t \in Tags : Prunes(t) => t # activePointer]_vars

(***************************************************************************)
(* SpecConc: ingest-laws.js processes for different tags at the same time. *)
(* The code sets no isolation level, so the transactions run READ          *)
(* COMMITTED: a statement sees what is committed when it starts and its    *)
(* own writes, and waits for a row another open transaction has written.   *)
(***************************************************************************)
\* the rows of law_dataset_versions the transaction of r has written
RowLocks(r) == {t \in Tags : run[r].tx.versions[t] # "unset"}

LockedByOther(r, t) == \E o \in Runners \ {r} : t \in RowLocks(o)

PointerLockedByOther(r) == \E o \in Runners \ {r} : run[o].tx.pointer # {}

ConcStart(r) ==
  /\ batch.pc = "idle" /\ monthly.pc = "idle"
  /\ \E t \in Tags, m \in Modes, d \in Dirs :
       /\ \A o \in Runners \ {r} : run[o].tag # t
       /\ StartRun(r, t, m, d, "cli")
  /\ UNCHANGED <<versions, activePointer, chunks, stateFile, batch, monthly>>

ConcUpsert(r) == ~LockedByOther(r, run[r].tag) /\ Upsert(r)

\* the archiving UPDATE starts: the rows its snapshot selects
ConcArchiveScan(r) ==
  /\ run[r].pc = "ingest"
  /\ run[r].file = FilesIn(run[r].dir)
  /\ run' = [run EXCEPT ![r].pc = "archive",
                        ![r].scan = {t \in Tags \ {run[r].tag} :
                                       TxStatus(r, t) = "active"}]
  /\ UNCHANGED <<versions, activePointer, chunks, stateFile, batch, monthly, runs>>

\* the selected rows, each re-checked against its latest committed version
TxArchiveScanned(r) ==
  [run[r].tx EXCEPT !.versions =
     [t \in Tags |-> IF t \in run[r].scan /\ TxStatus(r, t) = "active"
                       THEN "archived" ELSE @[t]]]

\* the archiving UPDATE ends, once no selected row is locked by another
ConcArchiveApply(r) ==
  /\ run[r].pc = "archive"
  /\ \A t \in run[r].scan : ~LockedByOther(r, t)
  /\ run' = [run EXCEPT ![r].tx = TxArchiveScanned(r), ![r].pc = "activate",
                        ![r].scan = {}]
  /\ UNCHANGED <<versions, activePointer, chunks, stateFile, batch, monthly, runs>>

ConcRepoint(r) == ~PointerLockedByOther(r) /\ Repoint(r)

NextConc ==
  \/ \E r \in Runners : ConcStart(r) /\ UNCHANGED <<guardVars, chat, callVars>>
  \/ \E r \in Runners : ConcUpsert(r) /\ UNCHANGED <<guardVars, chat, callVars>>
  \/ \E r \in Runners : DeleteOld(r) /\ UNCHANGED <<guardVars, chat, callVars>>
  \/ \E r \in Runners : IngestFile(r) /\ UNCHANGED <<guardVars, chat, callVars>>
  \/ \E r \in Runners : ConcArchiveScan(r) /\ UNCHANGED <<guardVars, chat, callVars>>
  \/ \E r \in Runners : ConcArchiveApply(r) /\ UNCHANGED <<guardVars, chat, callVars>>
  \/ \E r \in Runners : Activate(r) /\ UNCHANGED <<guardVars, chat, callVars>>
  \/ \E r \in Runners : ConcRepoint(r) /\ UNCHANGED <<guardVars, chat, callVars>>
  \/ \E r \in Runners : Commit(r) /\ UNCHANGED <<guardVars, chat, callVars>>
  \/ \E r \in Runners : Fail(r) /\ UNCHANGED <<guardVars, chat, callVars>>
  \/ \E r \in Runners, ok \in BOOLEAN : MarkVersionFailed(r, ok) /\ UNCHANGED <<guardVars, chat, callVars>>
  \/ \E r \in Runners : CliExit(r) /\ UNCHANGED <<guardVars, chat, callVars>>

SpecConc == Init /\ [][NextConc]_vars

BothCommitted == \A r \in Runners : run[r].pc = "committed"

\* C13: when two ingestion runs for different tags have run at the same time
\* and both have committed, exactly one version is 'active' and the active
\* pointer names it.
C13_ConcurrentRunsOneActive ==
  BothCommitted =>
    /\ Cardinality(ActiveTags) = 1
    /\ activePointer \in ActiveTags

(***************************************************************************)
(* Chunks of a version.                                                    *)
(***************************************************************************)
\* the chunks one run over directory d writes: one copy of the directory
OneCopy(d) == [e \in Dirs |-> IF e = d THEN 1 ELSE 0]

\* how many chunks c holds: each file of a directory yields one chunk per copy
RECURSIVE CountUpTo(_, _)
CountUpTo(c, d) == IF d = 0 THEN 0 ELSE c[d] * FilesIn(d) + CountUpTo(c, d - 1)
ChunkCount(c) == CountUpTo(c, NumDirs)

\* C14: a successful run in mode 'replace' over the files a successful run
\* for the same tag has just ingested leaves the tag with the same number of
\* chunks, and the same chunks.
C14_ReplaceKeepsCount ==
  \A r \in Runners :
    (/\ run[r].pc = "committed"
     /\ run[r].mode = "replace"
     /\ run[r].pre.chunks[run[r].tag] = OneCopy(run[r].dir)) =>
       /\ ChunkCount(chunks[run[r].tag]) = ChunkCount(run[r].pre.chunks[run[r].tag])
       /\ chunks[run[r].tag] = run[r].pre.chunks[run[r].tag]

C14_Witness ==
  \E r \in Runners :
    /\ run[r].pc = "committed"
    /\ run[r].mode = "replace"
    /\ run[r].pre.versions[run[r].tag] = "active"
    /\ run[r].pre.chunks[run[r].tag] = OneCopy(run[r].dir)
    /\ ChunkCount(chunks[run[r].tag]) >= 2

\* C15: a successful run in mode 'append' for tag T keeps every chunk T had
\* and adds exactly the chunks of the run; in both modes the chunks of every
\* other tag are unchanged.
C15_AppendKeepsChunks ==
  \A r \in Runners :
    run[r].pc = "committed" =>
      /\ run[r].mode = "append" =>
            chunks[run[r].tag] =
              [d \in Dirs |-> run[r].pre.chunks[run[r].tag][d] + OneCopy(run[r].dir)[d]]
      /\ \A t \in Tags \ {run[r].tag} : chunks[t] = run[r].pre.chunks[t]

C15_Witness ==
  \E r \in Runners :
    /\ run[r].pc = "committed"
    /\ run[r].mode = "append"
    /\ ChunkCount(run[r].pre.chunks[run[r].tag]) >= 1
    /\ \E t \in Tags \ {run[r].tag} : ChunkCount(chunks[t]) >= 1

(***************************************************************************)
(* The batched ingest.                                                     *)
(***************************************************************************)
\* this step makes tag t active, or makes the active pointer name it
Activates(t) ==
  \/ versions'[t] = "active" /\ versions[t] # "active"
  \/ activePointer' = t /\ activePointer # t

\* after this step the chunks of every law directory are committed for tag t
AllDirsCommitted(t) ==
  \A d \in LawDirs : FilesIn(d) > 0 => chunks'[t][d] >= 1

\* C16: during a batched ingest into one version tag, that tag becomes
\* 'active', and the active pointer comes to name it, only once the chunks of
\* all law directories are committed.
C16_BatchActivatesWhenComplete ==
  [][(batch.pc = "wait" /\ Activates(batch.tag)) => AllDirsCommitted(batch.tag)]_vars

(***************************************************************************)
(* Retrieval.  A retrieval is one query on the committed database; what    *)
(* matters here is which versions the rows it returns belong to.           *)
(***************************************************************************)
\* EXISTS (SELECT 1 FROM law_chunks WHERE version_tag = t)
HasChunks(t) == t \in Tags /\ ChunkCount(chunks[t]) > 0

\* SELECT MAX(version_tag) FROM law_chunks (NoTag: NULL)
MaxChunkVersion ==
  IF \E t \in Tags : HasChunks(t)
    THEN CHOOSE t \in Tags : HasChunks(t) /\ \A u \in Tags : HasChunks(u) => u <= t
    ELSE NoTag

\* the CTE effective_version of retrieveLegalSources
EffectiveVersion ==
  IF HasChunks(activePointer) THEN activePointer ELSE MaxChunkVersion

\* the versions of the rows retrieveLegalSources can return
LegalSourcesVersions ==
  {t \in Tags : HasChunks(t) /\ (EffectiveVersion = NoTag \/ t = EffectiveVersion)}

\* the tag of the fallback "legacy", which no ingestion run writes
Legacy == 0

\* getActiveVersionTag: the 'active' row with the latest imported_at, else
\* "legacy".  imported_at is the time a run's transaction began, so of two
\* active rows either can be the latest.
GetActiveVersionTag == IF ActiveTags # {} THEN ActiveTags ELSE {Legacy}

\* the versions of the rows retrieveLaws can return
RetrieveLawsVersions == {t \in Tags : HasChunks(t) /\ t \in GetActiveVersionTag}

\* the version a retrieval is to read: the one the active pointer names when
\* it has a chunk, else the greatest version that has chunks
VersionToRead ==
  IF activePointer # NoTag /\ ChunkCount(chunks[activePointer]) > 0
    THEN {activePointer}
    ELSE {t \in Tags : ChunkCount(chunks[t]) > 0
                       /\ \A u \in Tags : ChunkCount(chunks[u]) > 0 => u <= t}

\* C17: every chunk a retrieval returns belongs to the version the active
\* pointer names when that version has chunks, and to the greatest version
\* with chunks when it has none; no retrieval returns chunks of another
\* version or of two versions.
C17_RetrievalReadsPointerVersion ==
  /\ LegalSourcesVersions \subseteq VersionToRead
  /\ RetrieveLawsVersions \subseteq VersionToRead

(***************************************************************************)
(* The /chat handler of the server: catalog lookup, first-pass retrieval,  *)
(* fallback retrieval and the answer.  The chunks of the version the       *)
(* retrieval reads are rows 1..chat.corpus, numbered by their distance to  *)
(* the request's query; the fixed fallback query ranks them the other way  *)
(* round.                                                                  *)
(***************************************************************************)
\* most chunks the version being read holds
MaxRows == 16
\* the characters of a chunk's text that enter the merge key; stands for the
\* 300 of slice(0, 300), the texts being scaled down alike
TextKeyLen == 3

TopKLegalBasis == 10
TopKPlain == 6
TopN == 3
FallbackTopK == 14

\* law codes of the chunks, which are also the law_code values of law_catalog
Laws == <<"A", "B", "C", "D">>
DigitOf == <<"0", "1", "2", "3", "4", "5", "6", "7", "8", "9">>

\* outcomes of one retrieval call: the embedding request answers with an
\* embedding, with a body that holds none, or with an HTTP error; the store
\* query succeeds or throws
Outcomes == {"ok", "noEmbedding", "embeddingError", "storeError"}

\* columns law, section, title and text of row i
Law(i) == Laws[((i - 1) % Len(Laws)) + 1]

Section(i) ==
  IF chat.rows = "pipes" /\ i = 1 THEN <<"x", "|", "y">> ELSE <<"x">>

Title(i) ==
  IF chat.rows = "pipes" /\ i = 1 + Len(Laws) THEN <<"y", "|">>
  ELSE IF chat.rows = "pipes" /\ i = 1 THEN << >>
  ELSE <<"y">>

\* the rows whose texts begin alike
TextGroup(i) ==
  IF chat.rows = "dups" THEN ((i - 1) % (2 * Len(Laws))) + 1
  ELSE IF chat.rows = "pipes" /\ i = 1 + Len(Laws) THEN 1
  ELSE i

Text(i) ==
  <<DigitOf[(TextGroup(i) \div 10) + 1], DigitOf[(TextGroup(i) % 10) + 1], "-",
    DigitOf[(i \div 10) + 1], DigitOf[(i % 10) + 1]>>

\* whether extractNorms finds a norm in row i
HasNorm(i) ==
  \/ chat.norms = "all"
  \/ chat.norms = "late" /\ i > MaxRows \div 2

Take(s, k) == SubSeq(s, 1, Min(k, Len(s)))
Elems(s) == {s[i] : i \in 1..Len(s)}

\* ORDER BY lc.embedding <=> $1::vector, for the request's query and for the
\* fallback query
Ranking == [i \in 1..chat.corpus |-> i]
FallbackRanking == [i \in 1..chat.corpus |-> chat.corpus + 1 - i]

\* the SELECT of retrieveLegalSources
retrieveLegalSources(ranking, topK, lawCodes) ==
  Take(SelectSeq(ranking, LAMBDA i : lawCodes = {} \/ Law(i) \in lawCodes), topK)

\* the codes the catalog query can yield: LIMIT topN rows of law_catalog
CatalogResults == {c \in SUBSET Elems(Laws) : Cardinality(c) <= TopN}

\* const key = [law, section, title, text.slice(0, 300)].join("|")
MergeKey(i) ==
  <<Law(i)>> \o <<"|">> \o Section(i) \o <<"|">> \o Title(i) \o <<"|">>
    \o Take(Text(i), TextKeyLen)

RECURSIVE MergeFrom(_, _, _)
MergeFrom(rest, seen, merged) ==
  IF rest = << >> THEN merged
  ELSE IF MergeKey(Head(rest)) \in seen THEN MergeFrom(Tail(rest), seen, merged)
  ELSE MergeFrom(Tail(rest), seen \cup {MergeKey(Head(rest))},
                 Append(merged, Head(rest)))

mergeLegalSourcesUnique(primary, secondary) ==
  MergeFrom(primary \o secondary, {}, << >>)

\* the norms of the sources; the norm of row i is named i
buildNormAllowlist(sources) == {i \in Elems(sources) : HasNorm(i)}

\* the error reaches the catch of the handler: res.status(500)
ChatFailed ==
  [chat EXCEPT !.pc = "done", !.response = "500", !.failures = @ + 1]

ChatInit ==
  \E mode \in BOOLEAN, n \in 0..MaxRows, norms \in {"all", "late", "none"},
     rows \in {"distinct", "dups", "pipes"},
     skip \in {"none", "noDb", "noQuery"} :
    /\ skip = "noQuery" => ~mode
    /\ chat = [NoRequest EXCEPT !.pc = "catalog", !.legalBasisMode = mode,
                                !.corpus = n, !.norms = norms, !.rows = rows,
                                !.skip = skip]

\* lawCatalogTopLawCodes = legalBasisMode ? selectTopLawCodes(...) : []
ChatCatalog(o, codes) ==
  /\ chat.pc = "catalog"
  /\ chat' =
       IF ~chat.legalBasisMode \/ chat.skip = "noDb" \/ o = "noEmbedding"
         THEN [chat EXCEPT !.pc = "first"]
       ELSE IF o = "embeddingError" THEN ChatFailed
       ELSE IF o = "storeError"
         THEN [chat EXCEPT !.pc = "first", !.failures = @ + 1]
       ELSE [chat EXCEPT !.pc = "first", !.lawCodes = codes]
  /\ UNCHANGED <<dbVars, guardVars, callVars>>

FirstPassDone(sources, queried) ==
  [chat EXCEPT !.pc = "fallback", !.firstPass = sources,
               !.legalSources = sources, !.firstQueried = queried,
               !.allowedNorms = buildNormAllowlist(sources)]

\* legalSources = retrieveLegalSources(retrievalQuery, {topK, lawCodes}) and
\* normAllowlist = buildNormAllowlist(legalSourcesWithIds)
ChatFirstPass(o) ==
  /\ chat.pc = "first"
  /\ chat' =
       IF chat.skip # "none" \/ o = "noEmbedding" THEN FirstPassDone(<< >>, FALSE)
       ELSE IF o \in {"embeddingError", "storeError"} THEN ChatFailed
       ELSE FirstPassDone(
              retrieveLegalSources(
                Ranking,
                IF chat.legalBasisMode THEN TopKLegalBasis ELSE TopKPlain,
                chat.lawCodes),
              TRUE)
  /\ UNCHANGED <<dbVars, guardVars, callVars>>

FallbackDone(sources) ==
  [chat EXCEPT !.pc = "answer", !.fallbackSources = sources,
               !.legalSources = mergeLegalSourcesUnique(chat.legalSources, sources),
               !.allowedNorms =
                  buildNormAllowlist(
                    mergeLegalSourcesUnique(chat.legalSources, sources)),
               !.fallbackRuns = @ + 1,
               !.fallbackRetrievalUsed = TRUE]

\* if (legalBasisMode && normAllowlist.allowedNorms.size === 0) { ... }
ChatFallback(o) ==
  /\ chat.pc = "fallback"
  /\ chat' =
       IF ~(chat.legalBasisMode /\ chat.allowedNorms = {})
         THEN [chat EXCEPT !.pc = "answer"]
       ELSE IF chat.skip = "noDb" \/ o = "noEmbedding" THEN FallbackDone(<< >>)
       ELSE IF o \in {"embeddingError", "storeError"}
         THEN [ChatFailed EXCEPT !.fallbackRuns = @ + 1]
       ELSE FallbackDone(retrieveLegalSources(FallbackRanking, FallbackTopK, {}))
  /\ UNCHANGED <<dbVars, guardVars, callVars>>

\* const ai = await openaiChatStrictJSON(...) ... return res.json(ai)
ChatAnswer(ok) ==
  /\ chat.pc = "answer"
  /\ chat' = [chat EXCEPT !.pc = "done",
                          !.response = IF ok THEN "json" ELSE "500"]
  /\ UNCHANGED <<dbVars, guardVars, callVars>>

(***************************************************************************)
(* SpecChat: one /chat request on each corpus, with each outcome of the    *)
(* embedding provider, the store and the model.                            *)
(***************************************************************************)
InitChat == DbInit /\ GuardIdle /\ ChatInit /\ CallsIdle

NextChat ==
  \/ \E o \in Outcomes, codes \in CatalogResults : ChatCatalog(o, codes)
  \/ \E o \in Outcomes : ChatFirstPass(o)
  \/ \E o \in Outcomes : ChatFallback(o)
  \/ \E ok \in BOOLEAN : ChatAnswer(ok)

SpecChat == InitChat /\ [][NextChat]_vars

\* a retrieval call of the request fails in this step
RetrievalFails == chat'.failures > chat.failures

\* C18: when the embedding provider or the store fails during a retrieval of
\* the /chat handler, the request goes on with no evidence from that
\* retrieval, hence an empty allowlist, and is not answered with an error.
C18_RetrievalFailureDegrades ==
  [][RetrievalFails =>
       /\ chat'.pc # "done"
       /\ chat'.response # "500"
       /\ chat'.allowedNorms = {}]_vars

\* C19: in two-stage mode, whatever set of law codes the catalog lookup
\* yields, it has at most 3 codes, every chunk of the first-pass retrieval
\* has its law code in it and at most 10 chunks are returned; in plain mode
\* the first pass is the 6 nearest chunks, with no law-code filter.
C19_FirstPassFilter ==
  chat.firstQueried =>
    IF chat.legalBasisMode
      THEN /\ Cardinality(chat.lawCodes) <= TopN
           /\ \A i \in Elems(chat.firstPass) : Law(i) \in chat.lawCodes
           /\ Len(chat.firstPass) <= TopKLegalBasis
      ELSE /\ Len(chat.firstPass) <= TopKPlain
           /\ chat.firstPass = Take(Ranking, TopKPlain)

\* (law, section, title, first 300 characters of text) of row i
SourceTuple(i) == <<Law(i), Section(i), Title(i), Take(Text(i), TextKeyLen)>>

\* the entries of a list whose tuple no earlier entry has
FirstOccurrences(list) ==
  SelectSeq([k \in 1..Len(list) |->
               IF \E j \in 1..(k - 1) : SourceTuple(list[j]) = SourceTuple(list[k])
                 THEN 0 ELSE list[k]],
            LAMBDA i : i # 0)

\* C20: in two-stage mode, when the first pass yields an allowlist with no
\* norm, exactly one fallback retrieval is run (the anchor query, topK 14)
\* and the final evidence is the first-pass results followed by the fallback
\* results, keeping of the entries that share (law, section, title, first
\* 300 characters of text) the first one; it is non-empty when the fallback
\* returns a chunk.  In plain mode no fallback is run.
C20_FallbackMerge ==
  chat.pc = "answer" =>
    /\ (chat.legalBasisMode /\ buildNormAllowlist(chat.firstPass) = {}) =>
         /\ chat.fallbackRuns = 1
         /\ Len(chat.fallbackSources) <= FallbackTopK
         /\ chat.legalSources =
              FirstOccurrences(chat.firstPass \o chat.fallbackSources)
         /\ chat.fallbackSources # << >> => chat.legalSources # << >>
    /\ ~chat.legalBasisMode =>
         /\ chat.fallbackRuns = 0
         /\ chat.legalSources = chat.firstPass

(***************************************************************************)
(* rebuildLawCatalog (scripts/update-laws-monthly.js).  catalog.laws are   *)
(* the values of law_chunks.law in the active version, catalog.table the   *)
(* law_code keys of law_catalog.                                           *)
(***************************************************************************)
\* values of the column law (TEXT NOT NULL) and keys the catalog can hold
\* before the rebuild
RawLaws == {<<"A">>, <<"B">>, <<" ", "A">>, <<" ">>, <<"\t">>, << >>}
OldCodes == {<<"A">>, <<"B">>, <<"C">>}

\* btrim(law): strips the spaces at both ends
BTrim(s) ==
  LET cut(keep) ==
        IF keep = {} THEN << >>
        ELSE SubSeq(s, RunLen(s, 1, {" "}) + 1,
                    CHOOSE k \in keep : \A j \in keep : j <= k)
  IN cut({k \in 1..Len(s) : s[k] # " "})

\* SELECT law AS law_code ... WHERE version_tag = $1 AND btrim(law) <> ''
\* GROUP BY law
CatalogSelect(laws) == {l \in laws : BTrim(l) # << >>}

CatalogInit ==
  \E laws \in SUBSET RawLaws, table \in SUBSET OldCodes :
    catalog = [pc |-> "call", laws |-> laws, rows |-> {}, table |-> table]

\* ensureLawCatalogTable and the SELECT
CatalogQuery ==
  /\ catalog.pc = "call"
  /\ catalog' = [catalog EXCEPT !.pc = "loop", !.rows = CatalogSelect(catalog.laws)]
  /\ UNCHANGED <<dbVars, guardVars, chat, split, nn, allow, legal>>

\* one iteration of for (const row of laws.rows): skip a code that trims to
\* nothing, else embed it (ok = FALSE: getEmbedding throws) and upsert it
CatalogRow(row, ok) ==
  /\ catalog.pc = "loop"
  /\ row \in catalog.rows
  /\ catalog' =
       IF Trim(row) = << >> THEN [catalog EXCEPT !.rows = @ \ {row}]
       ELSE IF ~ok THEN [catalog EXCEPT !.pc = "failed"]
       ELSE [catalog EXCEPT !.rows = @ \ {row}, !.table = @ \cup {Trim(row)}]
  /\ UNCHANGED <<dbVars, guardVars, chat, split, nn, allow, legal>>

CatalogReturn ==
  /\ catalog.pc = "loop"
  /\ catalog.rows = {}
  /\ catalog' = [catalog EXCEPT !.pc = "done"]
  /\ UNCHANGED <<dbVars, guardVars, chat, split, nn, allow, legal>>

(***************************************************************************)
(* SpecCatalog: one rebuild on each version and each earlier catalog.      *)
(***************************************************************************)
InitCatalog ==
  /\ DbInit /\ GuardIdle /\ ChatIdle /\ CatalogInit
  /\ split = NoCall /\ nn = NoCall /\ allow = NoCall /\ legal = NoCall

NextCatalog ==
  \/ CatalogQuery
  \/ \E row \in RawLaws, ok \in BOOLEAN : CatalogRow(row, ok)
  \/ CatalogReturn

SpecCatalog == InitCatalog /\ [][NextCatalog]_vars

\* C21: after rebuildLawCatalog completes, the law_code keys of law_catalog
\* are exactly the non-blank law codes of the version's chunks, whatever the
\* catalog held before.
C21_CatalogMatchesVersion ==
  catalog.pc = "done" =>
    catalog.table = {Trim(l) : l \in catalog.laws} \ {<< >>}

(***************************************************************************)
(* splitText(text, maxChars) (scripts/ingest-laws.js), one loop iteration  *)
(* per step.                                                               *)
(***************************************************************************)
\* longest text and greatest maxChars the function is called with
MaxText == 5
MaxChars == 4

TextChars == {"a", "b", " ", "\n"}
SplitTexts == UNION {[1..n -> TextChars] : n \in 0..MaxText}

\* s.lastIndexOf(c, from), indices counted from 0
LastIndexOf(s, c, from) ==
  LET last(hits) ==
        IF hits = {} THEN -1 ELSE CHOOSE i \in hits : \A j \in hits : j <= i
  IN last({i \in 0..Min(from, Len(s) - 1) : s[i + 1] = c})

\* s.slice(from, to) and s.slice(from), indices counted from 0
Slice(s, from, to) == SubSeq(s, from + 1, Min(to, Len(s)))
SliceFrom(s, from) == SubSeq(s, from + 1, Len(s))

\* let idx = rest.lastIndexOf(" ", maxChars);
\* if (idx < Math.floor(maxChars * 0.6)) idx = maxChars;
SplitIdxOver(rest, maxChars) ==
  LET pick(idx) == IF idx < (maxChars * 6) \div 10 THEN maxChars + 1 ELSE idx
  IN pick(LastIndexOf(rest, " ", maxChars))

SplitIdx(rest, maxChars) ==
  LET pick(idx) == IF idx < (maxChars * 6) \div 10 THEN maxChars ELSE idx
  IN pick(LastIndexOf(rest, " ", maxChars))

\* rest = rest.slice(idx).trim()
SplitRestSkip(rest, idx) == Trim(SliceFrom(rest, idx + 1))

SplitRest(rest, idx) == Trim(SliceFrom(rest, idx))

SplitInit ==
  \E text \in SplitTexts, maxChars \in 1..MaxChars :
    split = [pc |-> "call", text |-> text, maxChars |-> maxChars,
             rest |-> << >>, chunks |-> << >>]

\* const chunks = []; let rest = text.trim()
SplitBegin ==
  /\ split.pc = "call"
  /\ split' = [split EXCEPT !.pc = "loop", !.rest = Trim(split.text)]
  /\ UNCHANGED <<dbVars, guardVars, chat, catalog, nn, allow, legal>>

\* one iteration of while (rest.length > maxChars)
SplitStep ==
  /\ split.pc = "loop"
  /\ Len(split.rest) > split.maxChars
  /\ LET body(idx) ==
           split' = [split EXCEPT
                       !.chunks = Append(@, Trim(Slice(split.rest, 0, idx))),
                       !.rest = SplitRest(split.rest, idx)]
     IN body(SplitIdx(split.rest, split.maxChars))
  /\ UNCHANGED <<dbVars, guardVars, chat, catalog, nn, allow, legal>>

\* if (rest) chunks.push(rest); return chunks
SplitReturn ==
  /\ split.pc = "loop"
  /\ Len(split.rest) <= split.maxChars
  /\ split' = [split EXCEPT
                 !.pc = "done",
                 !.chunks = IF split.rest # << >> THEN Append(@, split.rest) ELSE @]
  /\ UNCHANGED <<dbVars, guardVars, chat, catalog, nn, allow, legal>>

(***************************************************************************)
(* SpecSplit: one call of splitText on each text and maxChars;             *)
(* SpecSplitLive: the same, the call running on while it can.              *)
(***************************************************************************)
InitSplit ==
  /\ DbInit /\ GuardIdle /\ ChatIdle /\ SplitInit
  /\ catalog = NoCall /\ nn = NoCall /\ allow = NoCall /\ legal = NoCall

NextSplit == SplitBegin \/ SplitStep \/ SplitReturn

SpecSplit == InitSplit /\ [][NextSplit]_vars

SpecSplitLive == InitSplit /\ [][NextSplit]_vars /\ WF_vars(NextSplit)

\* C22: every chunk splitText produces has at most maxChars characters.
C22_ChunksWithinMax ==
  \A k \in 1..Len(split.chunks) : Len(split.chunks[k]) <= split.maxChars

\* a call that returned several chunks, one of them of the full length
C22_Witness ==
  /\ split.pc = "done"
  /\ Len(split.chunks) >= 2
  /\ \E k \in 1..Len(split.chunks) : Len(split.chunks[k]) = split.maxChars

\* the characters of s that are not whitespace
NonWhite(s) == SelectSeq(s, LAMBDA c : c \notin Space)

RECURSIVE Concat(_)
Concat(list) == IF list = << >> THEN << >> ELSE Head(list) \o Concat(Tail(list))

\* a loop iteration and what it has to do
SplitIterates == split.pc = "loop" /\ split'.pc = "loop"
SplitAdvances ==
  /\ Len(split'.chunks) = Len(split.chunks) + 1
  /\ split'.chunks[Len(split'.chunks)] # << >>
  /\ Len(split'.rest) < Len(split.rest)

\* C28: splitText terminates: each loop iteration emits a non-empty chunk
\* and strictly shortens the remaining text, the call returns, and the
\* non-whitespace characters of the chunks, in order, are those of the input.
C28_SplitTerminates ==
  /\ [][SplitIterates => SplitAdvances]_vars
  /\ <>(split.pc = "done")
  /\ [](split.pc = "done" => NonWhite(Concat(split.chunks)) = NonWhite(split.text))

\* a call that returned after two iterations of the loop and an end piece
C28_Witness ==
  /\ split.pc = "done"
  /\ Len(split.chunks) >= 3
  /\ \E k \in 1..Len(split.text) : split.text[k] \in Space

(***************************************************************************)
(* normalizeNorm applied to its own result, on citation-shaped strings.    *)
(***************************************************************************)
\* most groups (Abs., Satz, Nr., lit., Buchst., law) a citation carries
MaxGroups == 2

NormHeads == {<<"§">>, <<"A", "r", "t", ".">>}
NormGaps == {<< >>, <<" ">>, <<"\n", " ">>}
\* a group is the keyword and the value that follows it
NormGroups ==
  { [kw |-> <<"A", "b", "s", ".">>, val |-> <<"1">>],
    [kw |-> <<"A", "b", "s", "a", "t", "z">>, val |-> <<"1">>],
    [kw |-> <<"S", "a", "t", "z">>, val |-> <<"2">>],
    [kw |-> <<"N", "r", ".">>, val |-> <<"3">>],
    [kw |-> <<"l", "i", "t", ".">>, val |-> <<"a">>],
    [kw |-> <<"l", "i", "t">>, val |-> <<"a">>],
    [kw |-> <<"B", "u", "c", "h", "s", "t", ".">>, val |-> <<"b">>],
    [kw |-> <<"B", "G">>, val |-> <<"2">>],
    [kw |-> <<"S", "a", "t", "z", "u", "n", "g">>, val |-> << >>] }

RECURSIVE NormTail(_, _, _)
NormTail(groups, before, after) ==
  IF groups = << >> THEN << >>
  ELSE before \o Head(groups).kw \o after \o Head(groups).val
       \o NormTail(Tail(groups), before, after)

\* head, number and groups, with the same whitespace before every keyword
\* and the same after every keyword
NormShapes ==
  { h \o after \o <<"1">> \o NormTail(groups, before, after) :
      h \in NormHeads, before \in NormGaps, after \in NormGaps,
      groups \in UNION {[1..n -> NormGroups] : n \in 0..MaxGroups} }

\* the strings NORM_REGEX matches as a whole
CitationShaped == {x \in NormShapes : MatchAt(x, 1) = Len(x) + 1}

NormInit == \E x \in CitationShaped : nn = [pc |-> "call", x |-> x, once |-> << >>, twice |-> << >>]

NormOnce ==
  /\ nn.pc = "call"
  /\ nn' = [nn EXCEPT !.pc = "once", !.once = normalizeNorm(nn.x)]
  /\ UNCHANGED <<dbVars, guardVars, chat, catalog, split, allow, legal>>

NormTwice ==
  /\ nn.pc = "once"
  /\ nn' = [nn EXCEPT !.pc = "done", !.twice = normalizeNorm(nn.once)]
  /\ UNCHANGED <<dbVars, guardVars, chat, catalog, split, allow, legal>>

(***************************************************************************)
(* SpecNorm: normalizeNorm(normalizeNorm(x)) for each citation-shaped x.   *)
(***************************************************************************)
InitNorm ==
  /\ DbInit /\ GuardIdle /\ ChatIdle /\ NormInit
  /\ catalog = NoCall /\ split = NoCall /\ allow = NoCall /\ legal = NoCall

NextNorm == NormOnce \/ NormTwice

SpecNorm == InitNorm /\ [][NextNorm]_vars

\* C23: normalizeNorm is idempotent on citation-shaped strings:
\* normalizeNorm(normalizeNorm(x)) = normalizeNorm(x).
C23_NormalizeIdempotent == nn.pc = "done" => nn.twice = nn.once

\* a citation the first normalisation changed, normalised twice
C23_Witness ==
  /\ nn.pc = "done"
  /\ nn.once # nn.x
  /\ \E k \in 1..Len(nn.x) : nn.x[k] = "\n"

(***************************************************************************)
(* buildNormAllowlist(sources, {maxNorms}) of the citation guard, on       *)
(* sources with their texts.  A source id Sk is the number k, 0 a source   *)
(* without id; a Map is a function on its keys.                            *)
(***************************************************************************)
\* most sources of a call and greatest maxNorms
MaxSources == 3
MaxNormsCap == 3

SourcePool ==
  { [id |-> 1, section |-> <<"§", " ", "5">>, law |-> <<"B", "G">>,
     title |-> << >>, text |-> <<"§", "7", " ", "B", "G">>],
    [id |-> 2, section |-> << >>, law |-> <<"B", "G">>,
     title |-> <<"A", "r", "t", ".", "1", " ", "B", "G">>, text |-> << >>],
    [id |-> 0, section |-> <<"§", " ", "7">>, law |-> <<"B", "G">>,
     title |-> << >>, text |-> << >>],
    [id |-> 3, section |-> << >>, law |-> << >>, title |-> << >>,
     text |-> <<"§", " ", "1", "0", " ", "B", "G", ",", " ",
                "§", " ", " ", "5", " ", "B", "G">>] }

SourceLists == UNION {[1..n -> SourcePool] : n \in 0..MaxSources}

\* parts.filter(Boolean).join("\n")
RECURSIVE JoinLines(_)
JoinLines(parts) ==
  IF parts = << >> THEN << >>
  ELSE IF Head(parts) = << >> THEN JoinLines(Tail(parts))
  ELSE LET rest(r) == IF r = << >> THEN Head(parts) ELSE Head(parts) \o <<"\n">> \o r
       IN rest(JoinLines(Tail(parts)))

\* const text = [section && law ? `${section} ${law}` : "", section, title,
\*               text, law].filter(Boolean).join("\n")
SourceText(src) ==
  JoinLines(<<IF src.section # << >> /\ src.law # << >>
                THEN src.section \o <<" ">> \o src.law ELSE << >>,
              src.section, src.title, src.text, src.law>>)

\* the primary weights of the German collation on the characters of a
\* canonical norm: space, punctuation, symbols, digits, letters without case
CollationOrder ==
  <<{" "}, {",", "."}, {"§"}, {"0"}, {"1"}, {"2"}, {"3"}, {"4"}, {"5"}, {"6"},
    {"7"}, {"8"}, {"9"}, {"a", "A"}, {"ä", "Ä"}, {"b", "B"}, {"g", "G"},
    {"r", "R"}, {"s", "S"}, {"t", "T"}>>
Weight(c) == CHOOSE k \in 1..Len(CollationOrder) : c \in CollationOrder[k]

\* a.localeCompare(b, "de") < 0
RECURSIVE LocaleLess(_, _)
LocaleLess(a, b) ==
  IF b = << >> THEN FALSE
  ELSE IF a = << >> THEN TRUE
  ELSE IF Weight(Head(a)) # Weight(Head(b)) THEN Weight(Head(a)) < Weight(Head(b))
  ELSE LocaleLess(Tail(a), Tail(b))

\* [...].sort(cmp): x put into a sorted list
RECURSIVE SortedInsert(_, _)
SortedInsert(sorted, x) ==
  IF sorted = << >> THEN <<x>>
  ELSE IF LocaleLess(x, Head(sorted)) THEN <<x>> \o sorted
  ELSE <<Head(sorted)>> \o SortedInsert(Tail(sorted), x)

RECURSIVE SortNorms(_)
SortNorms(list) ==
  IF list = << >> THEN << >> ELSE SortedInsert(SortNorms(Tail(list)), Head(list))

\* [...ids].sort() of ids S1, S2, ...
RECURSIVE SortIds(_)
SortIds(ids) ==
  IF ids = {} THEN << >>
  ELSE LET least(m) == <<m>> \o SortIds(ids \ {m})
       IN least(CHOOSE m \in ids : \A j \in ids : m <= j)

\* the inner loop for (const norm of norms) from norm k on
RECURSIVE AddNorms(_, _, _, _)
AddNorms(acc, norms, k, srcId) ==
  IF k > Len(norms) THEN acc
  ELSE AddNorms(
         [allowed |-> SetAdd(acc.allowed, norms[k]),
          ids |-> [n \in DOMAIN acc.ids \cup {norms[k]} |->
                     (IF n \in DOMAIN acc.ids THEN acc.ids[n] ELSE {})
                     \cup (IF n = norms[k] /\ srcId # 0 THEN {srcId} ELSE {})]],
         norms, k + 1, srcId)

\* const capped = allowedArr.slice(0, maxNorms), the slice taken of the Set
\* as it was filled
CapUnsorted(allowed, maxNorms) == Take(allowed, maxNorms)

\* const allowedArr = [...allowed].sort(...); const capped = allowedArr.slice(0, maxNorms)
CapSorted(allowed, maxNorms) == Take(SortNorms(allowed), maxNorms)

AllowInit ==
  \E sources \in SourceLists, maxNorms \in 1..MaxNormsCap :
    allow = [pc |-> "call", sources |-> sources, maxNorms |-> maxNorms, i |-> 0,
             allowed |-> << >>, ids |-> << >>,
             allowedNorms |-> << >>, normToSourceIds |-> << >>]

\* const allowed = new Set(); const normToSourceIds = new Map()
AllowBegin ==
  /\ allow.pc = "call"
  /\ allow' = [allow EXCEPT !.pc = "loop", !.i = 1]
  /\ UNCHANGED <<dbVars, guardVars, chat, catalog, split, nn, legal>>

\* one iteration of for (const src of sources || [])
AllowSource ==
  /\ allow.pc = "loop"
  /\ allow.i <= Len(allow.sources)
  /\ LET body(acc) ==
           allow' = [allow EXCEPT !.i = @ + 1, !.allowed = acc.allowed,
                                  !.ids = acc.ids]
     IN body(AddNorms([allowed |-> allow.allowed, ids |-> allow.ids],
                      extractNorms(SourceText(allow.sources[allow.i])), 1,
                      allow.sources[allow.i].id))
  /\ UNCHANGED <<dbVars, guardVars, chat, catalog, split, nn, legal>>

\* sort, cap, cappedSet and cappedMap, return
AllowReturn ==
  /\ allow.pc = "loop"
  /\ allow.i > Len(allow.sources)
  /\ LET body(capped) ==
           allow' = [allow EXCEPT
                       !.pc = "done",
                       !.allowedNorms = capped,
                       !.normToSourceIds =
                          [n \in Elems(capped) |-> SortIds(allow.ids[n])]]
     IN body(CapSorted(allow.allowed, allow.maxNorms))
  /\ UNCHANGED <<dbVars, guardVars, chat, catalog, split, nn, legal>>

(***************************************************************************)
(* SpecAllow: one call of buildNormAllowlist on each list of sources.      *)
(***************************************************************************)
InitAllow ==
  /\ DbInit /\ GuardIdle /\ ChatIdle /\ AllowInit
  /\ catalog = NoCall /\ split = NoCall /\ nn = NoCall /\ legal = NoCall

NextAllow == AllowBegin \/ AllowSource \/ AllowReturn

SpecAllow == InitAllow /\ [][NextAllow]_vars

\* the norms extracted from source k of the call, and from all its sources
NormsOfSource(k) == Elems(extractNorms(SourceText(allow.sources[k])))
ExtractedNorms == UNION {NormsOfSource(k) : k \in 1..Len(allow.sources)}

\* how many extracted norms sort before n
NormsBefore(n) == Cardinality({m \in ExtractedNorms : LocaleLess(m, n)})

\* C24: allowedNorms is the first maxNorms elements, in the order of the
\* sort, of the set of all norms extracted from the sources, and
\* normToSourceIds has exactly those norms as keys, each mapped to exactly
\* the ids of the sources from whose text the norm was extracted.
C24_AllowlistSortedCapped ==
  allow.pc = "done" =>
    /\ Len(allow.allowedNorms) <= allow.maxNorms
    /\ Elems(allow.allowedNorms) =
         {n \in ExtractedNorms : NormsBefore(n) < allow.maxNorms}
    /\ \A k \in 1..Len(allow.allowedNorms) :
         NormsBefore(allow.allowedNorms[k]) = k - 1
    /\ DOMAIN allow.normToSourceIds = Elems(allow.allowedNorms)
    /\ \A n \in DOMAIN allow.normToSourceIds :
         Elems(allow.normToSourceIds[n]) =
           {allow.sources[k].id : k \in {j \in 1..Len(allow.sources) :
                                           n \in NormsOfSource(j)}} \ {0}

\* a call in which the cap cuts norms off and a kept norm has two sources
C24_Witness ==
  /\ allow.pc = "done"
  /\ Len(allow.allowed) > allow.maxNorms
  /\ \E n \in DOMAIN allow.normToSourceIds : Len(allow.normToSourceIds[n]) >= 2

(***************************************************************************)
(* Failed and resumed ingestion runs.                                      *)
(***************************************************************************)
\* the run of r threw while embedding or inserting the batches of a file
FailedInIngest(r) ==
  /\ run[r].pc \in {"markfailed", "threw"}
  /\ run[r].failedAt = "ingest"

\* C25: an ingestion run is all-or-nothing for chunks: when the embedding or
\* the insertion of a batch fails, none of the chunks the run inserted
\* exists afterwards and, in replace mode, the chunks the tag had before the
\* run are present again; no other chunk changes either.
C25_FailedRunKeepsChunks ==
  \A r \in Runners : FailedInIngest(r) => chunks = run[r].pre.chunks

\* a replace run over a tag that had chunks fails after it inserted a file
C25_Witness ==
  \E r \in Runners :
    /\ FailedInIngest(r)
    /\ run[r].pc = "threw"
    /\ run[r].mode = "replace"
    /\ run[r].file >= 1
    /\ run[r].pre.chunks[run[r].tag] # NoChunks

\* cap on the ingest-laws.js processes the batched ingests of one behaviour
\* start
MaxBatchRuns == 5

\* the database after LAW_VERSION_TAG=t LAW_XML_DIR=d node scripts/ingest-laws.js
\* on the empty database
AfterIngest(t, d) ==
  [versions |-> [u \in Tags |-> IF u = t THEN "active" ELSE "none"],
   pointer |-> t,
   chunks |-> [u \in Tags |-> IF u = t THEN OneCopy(d) ELSE NoChunks]]

InitBatch ==
  /\ \E db \in {EmptyDb} \cup {AfterIngest(t, d) : t \in Tags, d \in Dirs \ {0}} :
       /\ versions = db.versions
       /\ activePointer = db.pointer
       /\ chunks = db.chunks
  /\ stateFile = [t \in Tags |-> {}]
  /\ run = [r \in Runners |-> IdleRun]
  /\ batch = [pc |-> "idle", tag |-> NoTag, done |-> {}]
  /\ monthly = [pc |-> "idle", latest |-> NoTag, rows |-> {}]
  /\ runs = 0
  /\ GuardIdle /\ ChatIdle /\ CallsIdle

\* the driver is killed after its child ended and before writeState
BatchKilled(r) ==
  /\ batch.pc = "wait" /\ Ended(r) /\ run[r].caller = "batch"
  /\ batch' = [pc |-> "idle", tag |-> NoTag, done |-> {}]
  /\ run' = ResetRun(r)
  /\ UNCHANGED <<versions, activePointer, chunks, stateFile, monthly, runs>>

(***************************************************************************)
(* SpecBatch: batched ingests, failing, killed and resumed, on a database  *)
(* that is empty or holds an earlier ingest.                               *)
(***************************************************************************)
NextBatch ==
  \/ BatchStart /\ UNCHANGED <<guardVars, chat, callVars>>
  \/ \E r \in Sequential : BatchSpawnWithin(r, MaxBatchRuns) /\ UNCHANGED <<guardVars, chat, callVars>>
  \/ \E r \in Sequential : Upsert(r) /\ UNCHANGED <<guardVars, chat, callVars>>
  \/ \E r \in Sequential : DeleteOld(r) /\ UNCHANGED <<guardVars, chat, callVars>>
  \/ \E r \in Sequential : IngestFile(r) /\ UNCHANGED <<guardVars, chat, callVars>>
  \/ \E r \in Sequential : ArchiveOthers(r) /\ UNCHANGED <<guardVars, chat, callVars>>
  \/ \E r \in Sequential : Activate(r) /\ UNCHANGED <<guardVars, chat, callVars>>
  \/ \E r \in Sequential : Repoint(r) /\ UNCHANGED <<guardVars, chat, callVars>>
  \/ \E r \in Sequential : Commit(r) /\ UNCHANGED <<guardVars, chat, callVars>>
  \/ \E r \in Sequential : Fail(r) /\ UNCHANGED <<guardVars, chat, callVars>>
  \/ \E r \in Sequential, ok \in BOOLEAN : MarkVersionFailed(r, ok) /\ UNCHANGED <<guardVars, chat, callVars>>
  \/ \E r \in Sequential : Crash(r) /\ UNCHANGED <<guardVars, chat, callVars>>
  \/ \E r \in Sequential : BatchChildExit(r) /\ UNCHANGED <<guardVars, chat, callVars>>
  \/ \E r \in Sequential : BatchKilled(r) /\ UNCHANGED <<guardVars, chat, callVars>>
  \/ BatchFinish /\ UNCHANGED <<guardVars, chat, callVars>>

SpecBatch == InitBatch /\ [][NextBatch]_vars

\* the chunks of a version that holds every law directory exactly once
EachDirOnce == [d \in Dirs |-> IF FilesIn(d) > 0 THEN 1 ELSE 0]

\* C26: once a batched ingest has recorded every law directory as done, over
\* any number of failed, killed and resumed runs, the version's chunks are
\* those of each law directory exactly once: none duplicated, none missing,
\* none left over from an earlier ingest of the tag.
C26_BatchExactlyOnce ==
  \A t \in Tags : stateFile[t] = LawDirs => chunks[t] = EachDirOnce


(***************************************************************************)
(* SpecMonthly: monthly updates only, one after the other, the harvest     *)
(* page offering any version tag as its latest.                            *)
(***************************************************************************)
NextMonthly ==
  \/ \E r \in Sequential : MonthlyStart(r) /\ UNCHANGED <<guardVars, chat, callVars>>
  \/ \E r \in Sequential : Upsert(r) /\ UNCHANGED <<guardVars, chat, callVars>>
  \/ \E r \in Sequential : DeleteOld(r) /\ UNCHANGED <<guardVars, chat, callVars>>
  \/ \E r \in Sequential : IngestFile(r) /\ UNCHANGED <<guardVars, chat, callVars>>
  \/ \E r \in Sequential : ArchiveOthers(r) /\ UNCHANGED <<guardVars, chat, callVars>>
  \/ \E r \in Sequential : Activate(r) /\ UNCHANGED <<guardVars, chat, callVars>>
  \/ \E r \in Sequential : Repoint(r) /\ UNCHANGED <<guardVars, chat, callVars>>
  \/ \E r \in Sequential : Commit(r) /\ UNCHANGED <<guardVars, chat, callVars>>
  \/ \E r \in Sequential : Fail(r) /\ UNCHANGED <<guardVars, chat, callVars>>
  \/ \E r \in Sequential, ok \in BOOLEAN : MarkVersionFailed(r, ok) /\ UNCHANGED <<guardVars, chat, callVars>>
  \/ \E r \in Sequential : Crash(r) /\ UNCHANGED <<guardVars, chat, callVars>>
  \/ \E r \in Sequential : MonthlyChildExit(r) /\ UNCHANGED <<guardVars, chat, callVars>>
  \/ \E ok \in BOOLEAN : MonthlyCatalog(ok) /\ UNCHANGED <<guardVars, chat, callVars>>
  \/ \E t \in Tags : PruneRow(t) /\ UNCHANGED <<guardVars, chat, callVars>>
  \/ MonthlyDone /\ UNCHANGED <<guardVars, chat, callVars>>

SpecMonthly == Init /\ [][NextMonthly]_vars

\* C27: across any sequence of monthly updates the active pointer never
\* changes to a tag that sorts before the tag it named: a monthly update
\* replaces the active version only by one with a greater tag.
C27_PointerNeverGoesBack ==
  [][activePointer # NoTag => activePointer' >= activePointer]_vars

(***************************************************************************)
(* The answer step of app.post("/chat"): the model's analysis goes through *)
(* the citation guard, and a legal-basis answer that names no norm of the  *)
(* allowlist is replaced by a fixed message.                               *)
(***************************************************************************)
\* "Не могу подтвердить конкретные нормы по извлечённым источникам.
\* Пришлите текст расчёта при увольнении, приказ/соглашение об увольнении или
\* документ работодателя, чтобы я подтянул точные нормы и статьи.": each "~"
\* stands for one Cyrillic word
CannotConfirm ==
  <<"~", " ", "~", " ", "~", " ", "~", " ", "~", " ", "~", " ", "~", " ", "~", ".", " ",
    "~", " ", "~", " ", "~", " ", "~", " ", "~", ",", " ",
    "~", "/", "~", " ", "~", " ", "~", " ", "~", " ", "~", " ", "~", ",", " ",
    "~", " ", "~", " ", "~", " ", "~", " ", "~", " ", "~", " ", "~", ".">>

\* [...allowedNorms].some((norm) => ai.analysis.includes(norm))
hasAllowedNormInAnswer(analysis, allowed) ==
  \E k \in 1..Len(allowed) : IndexOf(analysis, allowed[k]) # 0

\* the analysis is left as the guard returned it
FinalAnalysisKept(analysis, allowed, legalBasisMode) == analysis

\* if (legalBasisMode && !hasAllowedNormInAnswer) ai.analysis = "Не могу ..."
FinalAnalysis(analysis, allowed, legalBasisMode) ==
  IF legalBasisMode /\ ~hasAllowedNormInAnswer(analysis, allowed)
    THEN CannotConfirm
    ELSE analysis

\* the handler from the sanitised analysis to res.json(ai); ok is FALSE when
\* the high-risk escalation (second model call, manager webhook) throws and
\* the catch block answers 500 without an analysis
ChatRespond(ok) ==
  /\ chat.pc = "answer"
  /\ gpc = "done"
  /\ chat' = [chat EXCEPT
       !.pc = "done",
       !.analysis = IF ok THEN FinalAnalysis(sanitized, allowedNorms, chat.legalBasisMode)
                    ELSE << >>,
       !.response = IF ok THEN "json" ELSE "500"]
  /\ UNCHANGED <<dbVars, guardVars, callVars>>

\* a request whose model answer has arrived, in either mode
InitAnswer ==
  /\ DbInit
  /\ GuardInit
  /\ \E mode \in BOOLEAN :
       chat = [NoRequest EXCEPT !.pc = "answer", !.legalBasisMode = mode]
  /\ CallsIdle

NextAnswer ==
  \/ SanitizeBegin
  \/ SanitizeStep
  \/ \E ok \in BOOLEAN : ChatRespond(ok)

SpecAnswer == InitAnswer /\ [][NextAnswer]_vars

\* C29: the analysis a legal-basis request gets back either holds a norm of
\* the allowlist as a substring or is the fixed "cannot confirm" message, and
\* with an empty allowlist it is the fixed message.
C29_LegalBasisAnswerGrounded ==
  (chat.pc = "done" /\ chat.response = "json" /\ chat.legalBasisMode) =>
    /\ \/ hasAllowedNormInAnswer(chat.analysis, allowedNorms)
       \/ chat.analysis = CannotConfirm
    /\ allowedNorms = << >> => chat.analysis = CannotConfirm

\* a legal-basis answer that cited only norms outside a non-empty allowlist
\* and came back as the fixed message
C29_Witness ==
  /\ chat.pc = "done" /\ chat.response = "json" /\ chat.legalBasisMode
  /\ allowedNorms # << >>
  /\ removed # << >>
  /\ chat.analysis = CannotConfirm

(***************************************************************************)
(* answerLegalQuestion(userQuestion) and guardAnswer(answer, context):     *)
(* without a law context the "§ <number>" citations of the model's answer  *)
(* are marked as unconfirmed.                                              *)
(***************************************************************************)
MaxAnswer == 4
ContextMin == 40

LegalChars == {"§", " ", "1", "a"}
RawAnswers == UNION {[1..n -> LegalChars] : n \in 0..MaxAnswer}

\* what retrieveLaws can return: l spaces, n other characters, r spaces
Filled(n, c) == [k \in 1..n |-> c]
LawContexts ==
  {Filled(l, " ") \o Filled(n, "x") \o Filled(r, " ") :
     l \in 0..1, r \in 0..1, n \in {0, ContextMin - 1, ContextMin, ContextMin + 1}}

\* the context counts by its length as returned
hasLawContextUntrimmed(contextLawsText) == Len(contextLawsText) > ContextMin

\* typeof contextLawsText === "string" && contextLawsText.trim().length > 40
hasLawContext(contextLawsText) == Len(Trim(contextLawsText)) > ContextMin

\* the position after the match of /§\s*\d+/ that starts at i, 0 without one
ConfidentEnd(s, i) ==
  LET digits(j) == IF RunLen(s, j, Digit) = 0 THEN 0 ELSE j + RunLen(s, j, Digit)
  IN IF i <= Len(s) /\ s[i] = "§" THEN digits(i + 1 + RunLen(s, i + 1, Space)) ELSE 0

\* the position after the match of /§\s*\d+[a-zA-Z]*/ that starts at i
FakeEnd(s, i) ==
  LET letters(j) == IF j = 0 THEN 0 ELSE j + RunLen(s, j, Letter)
  IN letters(ConfidentEnd(s, i))

\* " — не подтверждено источниками": "-" stands for the dash and each "~"
\* for one Cyrillic word
NotConfirmed == <<" ", "-", " ", "~", " ", "~", " ", "~">>

\* "\n\nВнимание: ссылки на параграфы помечены как непроверенные, потому что
\* база норм не была предоставлена агенту."
Warning ==
  <<"\n", "\n", "~", ":", " ", "~", " ", "~", " ", "~", " ", "~", " ", "~", " ", "~", ",", " ",
    "~", " ", "~", " ", "~", " ", "~", " ", "~", " ", "~", " ", "~", " ", "~", ".">>

\* answer.replace(/§\s*\d+[a-zA-Z]*/g, (m) => `(${m} — не подтверждено ...)`)
RECURSIVE WrapFrom(_, _)
WrapFrom(s, i) ==
  IF i > Len(s) THEN << >>
  ELSE IF FakeEnd(s, i) # 0
    THEN <<"(">> \o SubSeq(s, i, FakeEnd(s, i) - 1) \o NotConfirmed \o <<")">>
         \o WrapFrom(s, FakeEnd(s, i))
    ELSE <<s[i]>> \o WrapFrom(s, i + 1)

stripFakeCitations(answer) == WrapFrom(answer, 1) \o Warning

guardAnswer(answer, contextLawsText) ==
  IF hasLawContext(contextLawsText) THEN answer
  ELSE IF \E i \in 1..Len(answer) : ConfidentEnd(answer, i) # 0
    THEN stripFakeCitations(answer)
    ELSE answer

LegalInit ==
  legal = [pc |-> "retrieve", contextLawsText |-> << >>, retrieveThrew |-> FALSE,
           raw |-> << >>, llmThrew |-> FALSE, answer |-> << >>,
           used_context |-> FALSE]

\* contextLawsText = await retrieveLaws(userQuestion)
LegalRetrieve(text) ==
  /\ legal.pc = "retrieve"
  /\ legal' = [legal EXCEPT !.pc = "llm", !.contextLawsText = text]
  /\ UNCHANGED <<dbVars, guardVars, chat, catalog, split, nn, allow>>

\* catch { contextLawsText = "" }
LegalRetrieveThrows ==
  /\ legal.pc = "retrieve"
  /\ legal' = [legal EXCEPT !.pc = "llm", !.contextLawsText = << >>,
                            !.retrieveThrew = TRUE]
  /\ UNCHANGED <<dbVars, guardVars, chat, catalog, split, nn, allow>>

\* const raw = await llmCall(...)
LegalLlm(raw) ==
  /\ legal.pc = "llm"
  /\ legal' = [legal EXCEPT !.pc = "guard", !.raw = raw]
  /\ UNCHANGED <<dbVars, guardVars, chat, catalog, split, nn, allow>>

\* llmCall rejects: nothing catches it, the call rejects
LegalLlmThrows ==
  /\ legal.pc = "llm"
  /\ legal' = [legal EXCEPT !.pc = "rejected", !.llmThrew = TRUE]
  /\ UNCHANGED <<dbVars, guardVars, chat, catalog, split, nn, allow>>

\* const safe = guardAnswer(String(raw || ""), contextLawsText); return {...}
LegalReturn ==
  /\ legal.pc = "guard"
  /\ legal' = [legal EXCEPT
       !.pc = "done",
       !.answer = guardAnswer(legal.raw, legal.contextLawsText),
       !.used_context = (Len(Trim(legal.contextLawsText)) # 0)]
  /\ UNCHANGED <<dbVars, guardVars, chat, catalog, split, nn, allow>>

InitLegal ==
  /\ DbInit /\ GuardIdle /\ ChatIdle
  /\ catalog = NoCall /\ split = NoCall /\ nn = NoCall /\ allow = NoCall
  /\ LegalInit

NextLegal ==
  \/ \E text \in LawContexts : LegalRetrieve(text)
  \/ LegalRetrieveThrows
  \/ \E raw \in RawAnswers : LegalLlm(raw)
  \/ LegalLlmThrows
  \/ LegalReturn

SpecLegal == InitLegal /\ [][NextLegal]_vars

\* the "§ <number>" citations of t, in order, each with the letters after it
CitesOf(t) ==
  LET at == SelectSeq([i \in 1..Len(t) |-> i], LAMBDA i : FakeEnd(t, i) # 0)
  IN [k \in 1..Len(at) |-> SubSeq(t, at[k], FakeEnd(t, at[k]) - 1)]

\* the citation that starts at i stands between "(" and the "not confirmed" mark
Wrapped(t, i) ==
  /\ i > 1 /\ t[i - 1] = "("
  /\ SubSeq(t, FakeEnd(t, i), FakeEnd(t, i) + Len(NotConfirmed)) = NotConfirmed \o <<")">>

\* C30: the call rejects only when the model call itself fails, never
\* because retrieval threw; once the model has answered, a context of at most
\* 40 characters after trimming (a thrown retrieval included) leaves every
\* "§ <number>" citation of the raw answer in the returned answer, each inside
\* the "not confirmed" wrapper, with the warning at the end, and a longer
\* context returns the raw answer unchanged.
C30_UnfoundedCitationsMarked ==
  /\ legal.pc = "rejected" => legal.llmThrew
  /\ legal.pc = "done" =>
       IF Len(Trim(legal.contextLawsText)) <= ContextMin
         THEN /\ CitesOf(legal.answer) = CitesOf(legal.raw)
              /\ \A i \in 1..Len(legal.answer) :
                   ConfidentEnd(legal.answer, i) # 0 => Wrapped(legal.answer, i)
              /\ CitesOf(legal.raw) # << >> => EndsWith(legal.answer, Warning)
         ELSE legal.answer = legal.raw

\* a call whose retrieval threw and whose model answer cites two paragraphs
C30_Witness ==
  /\ legal.pc = "done" /\ legal.retrieveThrew
  /\ Len(CitesOf(legal.raw)) = 2
  /\ legal.answer # legal.raw
====
